---- MODULE Spec2Model ----
(***************************************************************************)
(* Model of the transaction-script opcode handlers of                      *)
(* pkg/chain/tx/script/opcode.go: the conditional opcodes and the          *)
(* disabled-opcode screen, OpCheckSig, OpCheckMultiSig with its            *)
(* two-pointer scan, the lock time opcodes and the NOP family, OpVerify    *)
(* and the opcodes that end with a verify, and, on scripts as bytes, the   *)
(* minimal push check and the encoding of parsed opcodes; and of the       *)
(* wallet Loader of pkg/wallet/loader.go called by concurrent goroutines.  *)
(*                                                                         *)
(* Byte strings are abstracted to the attributes the handlers read: the    *)
(* empty string, small numbers, signature items (hash type validity,       *)
(* strict encoding, parseability, the key that verifies them) and public   *)
(* key items (strict encoding, parseability, identity).  The elliptic      *)
(* curve primitive and the signature-hash functions are opaque: a          *)
(* signature item names the key identity under which Verify returns true.  *)
(***************************************************************************)
EXTENDS Integers, Sequences, FiniteSets, TLC

(***************************************************************************)
(* Bounds of the model.                                                    *)
(***************************************************************************)
\* the largest number of public keys (and of signatures) actually placed on
\* the stack for one OpCheckMultiSig
MaxKeys == 2
\* the largest number of opcodes the program counter passes in one evaluation
MaxScriptLen == 4
\* the number of engines that share a cache
NumEvals == 2
\* the largest number of opcodes of a script of pushes and conditionals
MaxBranchLen == 6

(***************************************************************************)
(* Program constants.                                                      *)
(***************************************************************************)
MaxPubKeysPerMultiSig == 20
MaxOpsPerScript == 201

\* Conditional execution constants.
OpCondFalse == 0
OpCondTrue == 1
OpCondSkip == 2

(***************************************************************************)
(* Error kinds (nil is the absence of an error).                           *)
(***************************************************************************)
NoErr == "nil"
ErrDisabledOpcode == "ErrDisabledOpcode"
ErrReservedOpcode == "ErrReservedOpcode"
ErrUnbalancedConditional == "ErrUnbalancedConditional"
ErrDiscourageUpgradableNOPs == "ErrDiscourageUpgradableNOPs"
ErrMinimalIf == "ErrMinimalIf"
ErrEarlyReturn == "ErrEarlyReturn"
ErrInvalidStackOperation == "ErrInvalidStackOperation"
ErrInvalidPubKeyCount == "ErrInvalidPubKeyCount"
ErrInvalidSignatureCount == "ErrInvalidSignatureCount"
ErrTooManyOperations == "ErrTooManyOperations"
ErrSigNullDummy == "ErrSigNullDummy"
ErrNullFail == "ErrNullFail"
ErrInvalidSigHashType == "ErrInvalidSigHashType"
ErrSigEncoding == "ErrSigEncoding"
ErrPubKeyType == "ErrPubKeyType"

(***************************************************************************)
(* Script flags.                                                           *)
(***************************************************************************)
ScriptVerifyStrictEncoding == "ScriptVerifyStrictEncoding"
ScriptVerifyDERSignatures == "ScriptVerifyDERSignatures"
ScriptVerifyNullFail == "ScriptVerifyNullFail"
ScriptStrictMultiSig == "ScriptStrictMultiSig"
ScriptDiscourageUpgradableNops == "ScriptDiscourageUpgradableNops"
ScriptVerifyMinimalIf == "ScriptVerifyMinimalIf"

SigFlags == {ScriptVerifyStrictEncoding, ScriptVerifyDERSignatures, ScriptVerifyNullFail}

(***************************************************************************)
(* Stack items.                                                            *)
(***************************************************************************)
\* the empty byte string: boolean false, the number 0, the empty signature
Empty == [tag |-> "empty"]

\* the single byte 0x00: not empty, and false as a boolean
ZeroByte == [tag |-> "zero"]

\* the minimal encoding of the number i
ScriptNum(i) == IF i = 0 THEN Empty ELSE [tag |-> "num", v |-> i]

\* the number an item decodes to
AsInt(item) == IF item.tag = "num" THEN item.v ELSE 0

\* an opaque non-empty byte string that is neither key nor signature
Data(name) == [tag |-> "data", id |-> name]

\* A signature item: the signature body followed by the hash type byte.
\*   hashOk   the hash type byte is one of the defined hash types
\*   body     the body is non-empty
\*   encOk    the body is a strict DER encoding
\*   der, lax the body is accepted by ParseDERSignature, ParseSignature
\*   signer   the key identity under which the parsed signature verifies
SigItem(hashOk, body, encOk, der, lax, signer) ==
    [tag |-> "sig", hashOk |-> hashOk, body |-> body, encOk |-> encOk,
     der |-> der, lax |-> lax, signer |-> signer]

SigFor(k) == SigItem(TRUE, TRUE, TRUE, TRUE, TRUE, k)
SigBadHash(k) == SigItem(FALSE, TRUE, TRUE, TRUE, TRUE, k)
SigLax(k) == SigItem(TRUE, TRUE, FALSE, FALSE, TRUE, k)
SigGarbage == SigItem(TRUE, TRUE, FALSE, FALSE, FALSE, 0)
SigBadRS == SigItem(TRUE, TRUE, TRUE, FALSE, FALSE, 0)
SigHashOnly == SigItem(TRUE, FALSE, FALSE, FALSE, FALSE, 0)

\* A public key item.
\*   encOk    the bytes have the compressed or uncompressed key format
\*   parses   ParsePubKey accepts the bytes
\*   id       the key identity
KeyItem(encOk, parses, id) ==
    [tag |-> "key", encOk |-> encOk, parses |-> parses, id |-> id]

Key(k) == KeyItem(TRUE, TRUE, k)
KeyHybrid(k) == KeyItem(FALSE, TRUE, k)
KeyOffCurve == KeyItem(TRUE, FALSE, 0)
KeyBad == KeyItem(FALSE, FALSE, 0)

KeyIds == {1, 2}

\* the items OpCheckSig is run on
CheckSigSigs ==
    {Empty, SigBadHash(1), SigLax(1), SigGarbage, SigBadRS, SigHashOnly}
        \cup {SigFor(k) : k \in KeyIds}
CheckSigKeys == {KeyHybrid(1), KeyOffCurve, KeyBad} \cup {Key(k) : k \in KeyIds}

\* the items OpCheckMultiSig is run on
MultiSigSigs == {Empty, SigGarbage, SigBadRS} \cup {SigFor(k) : k \in KeyIds}
MultiSigKeys == {KeyBad} \cup {Key(k) : k \in KeyIds}

Bottom == Data("bottom")

(***************************************************************************)
(* The state: the fields of the Engine the handlers use, the position of   *)
(* the running handler, and the history of the calls it has made.          *)
(***************************************************************************)
VARIABLES
    dstack,     \* vm.dstack, the top of the stack is the last element
    condStack,  \* vm.condStack
    numOps,     \* vm.numOps
    flags,      \* vm.flags
    witness,    \* vm.isWitnessVersionActive(0)
    sigCache,   \* vm.sigCache: NoCache, or the set of cached triples
    err,        \* the error the evaluation ended with, NoErr while none
    pc,         \* position of the engine or of the running handler
    pcOp,       \* the opcode the program counter passed last
    steps,      \* the number of opcodes the program counter has passed
    ms,         \* the local variables of opcodeCheckMultiSig
    calls,      \* the calls made to the encoding checks, hashes, parsers,
                \* verification and cache, in order
    stack0,     \* the data stack when the handler was entered
    condStack0, \* the condition stack when the handler was entered
    cache0,     \* the cache when the handler was entered
    numOps0,    \* vm.numOps when the handler was entered
    script,     \* the opcodes the program counter has passed, in order
    evals,      \* the evaluations of other engines that share the cache
    astack,     \* vm.astack, the alternate stack
    tx,         \* the fields of vm.tx and of the input vm.tx.TxIn[vm.txIdx]
                \* the handlers read
    dec,        \* a script as bytes, its parsed opcodes and what the
                \* functions of parsedOpcode return for them
    ld          \* a wallet Loader, the goroutines calling it, the wallet
                \* database on disk and the callbacks run

vars == <<dstack, condStack, numOps, flags, witness, sigCache, err, pc, pcOp,
          steps, ms, calls, stack0, condStack0, cache0, numOps0, script,
          evals, astack, tx, dec, ld>>

\* no transaction field is read, and no script is being decoded
NoTx ==
    [LockTime |-> [hi |-> 0, lo |-> 0], Version |-> 1,
     Sequence |-> [hi |-> 0, lo |-> 0]]
NoDec == [state |-> "none"]
\* no wallet Loader is looked at
NoLoader == [state |-> "none"]

\* vm.sigCache == nil, and a cache holding the triples in e
NoCache == [present |-> FALSE, entries |-> {}]
Cache(e) == [present |-> TRUE, entries |-> e]
NoMS == [state |-> "none"]

\* Seq helpers
Top(s) == s[Len(s)]
Pop(s) == SubSeq(s, 1, Len(s) - 1)
BoolItem(b) == IF b THEN ScriptNum(1) ELSE Empty

(***************************************************************************)
(* Engine helpers used by the handlers.                                    *)
(***************************************************************************)
hasFlag(fl, f) == f \in fl

\* the hash type byte must be a defined hash type under strict encoding
checkHashTypeEncoding(fl, sig) ==
    IF ~hasFlag(fl, ScriptVerifyStrictEncoding) THEN NoErr
    ELSE IF sig.tag = "sig" /\ sig.hashOk THEN NoErr ELSE ErrInvalidSigHashType

\* the signature body must be strict DER under the DER or strict flags
checkSignatureEncoding(fl, sig) ==
    IF ~hasFlag(fl, ScriptVerifyDERSignatures)
          /\ ~hasFlag(fl, ScriptVerifyStrictEncoding) THEN NoErr
    ELSE IF sig.tag = "sig" /\ sig.encOk THEN NoErr ELSE ErrSigEncoding

\* the public key must have a standard format under strict encoding
checkPubKeyEncoding(fl, key) ==
    IF ~hasFlag(fl, ScriptVerifyStrictEncoding) THEN NoErr
    ELSE IF key.tag = "key" /\ key.encOk THEN NoErr ELSE ErrPubKeyType

\* ec.ParsePubKey(pkBytes, ec.S256()) returns no error
ParsePubKeyOk(key) == key.tag = "key" /\ key.parses

\* the strict parser used whatever the flags are
ParseSigAlwaysDER(fl, sig) == sig.tag = "sig" /\ sig.der

\* the parser the flags select returns no error
ParseSigOk(fl, sig) ==
    IF hasFlag(fl, ScriptVerifyStrictEncoding)
          \/ hasFlag(fl, ScriptVerifyDERSignatures)
    THEN sig.tag = "sig" /\ sig.der
    ELSE sig.tag = "sig" /\ sig.lax

ParserName(fl) ==
    IF hasFlag(fl, ScriptVerifyStrictEncoding)
          \/ hasFlag(fl, ScriptVerifyDERSignatures)
    THEN "ParseDERSignature"
    ELSE "ParseSignature"

\* signature.Verify(hash, pubKey) for a parsed signature and a parsed key
Verify(sig, key) ==
    sig.tag = "sig" /\ key.tag = "key" /\ sig.signer = key.id

HashName(wit) ==
    IF wit THEN "calcWitnessSignatureHash" ELSE "calcSignatureHash"

\* One call of the history: the function, and the positions of the
\* signature and the public key it was given (0 where it takes none).
Call(fn, s, k) == [fn |-> fn, sig |-> s, key |-> k]

\* The triple (sigHash, signature, pubKey) the cache is asked about: the hash
\* is fixed by the hash type byte, and the parsed signature and the parsed
\* public key by what they sign and who they are, not by their encoding.
CacheKey(sig, key) == <<sig.hashOk, sig.signer, key.id>>

\* a hit on any entry for the signature, whatever the public key
CacheHitAnyKey(cache, sig, key) ==
    \E e \in cache.entries : e[1] = sig.hashOk /\ e[2] = sig.signer

\* vm.sigCache.Exists(sigHash, signature, pubKey)
CacheHit(cache, sig, key) == CacheKey(sig, key) \in cache.entries

\* the triple is added whether or not it verified
CacheAddedAlways(cache, sig, key, ok) ==
    Cache(cache.entries \cup {CacheKey(sig, key)})

\* lines 2109-2113: vm.sigCache.Add(sigHash, signature, pubKey) once the
\* triple has verified
CacheAdded(cache, sig, key, ok) ==
    IF ok THEN Cache(cache.entries \cup {CacheKey(sig, key)}) ELSE cache

\* The cached verification of lines 2103-2118 and 2363-2379: the result, the
\* cache afterwards and the calls made.
CachedVerify(cache, sig, key, s, k) ==
    IF cache.present
    THEN LET hit == CacheHit(cache, sig, key)
             ok == Verify(sig, key)
         IN  [valid |-> hit \/ ok,
              cache |-> IF hit THEN cache ELSE CacheAdded(cache, sig, key, ok),
              calls |-> <<Call("sigCache.Exists", s, k)>>
                        \o (IF hit THEN <<>> ELSE <<Call("Verify", s, k)>>)
                        \o (IF ~hit /\ ok
                            THEN <<Call("sigCache.Add", s, k)>> ELSE <<>>)]
    ELSE [valid |-> Verify(sig, key),
          cache |-> cache,
          calls |-> <<Call("Verify", s, k)>>]

(***************************************************************************)
(* The opcodes the program counter passes, by name, and the handler the    *)
(* opcodeArray gives each.                                                 *)
(***************************************************************************)
DisabledOpcodes ==
    {"OpCat", "OpSubstr", "OpLeft", "OpRight", "OpInvert", "OpAnd", "OpOr",
     "OpXor", "Op1Mul", "Op2Div", "OpMul", "OpDiv", "OpMod", "OpLShift",
     "OpRShift"}
ReservedOpcodes ==
    {"OpReserved", "OpVer", "OpVerIf", "OpVerIfNot", "OpReserved1",
     "OpReserved2"}
InvalidOpcodes == {"OpUnknown186", "OpInvalidOpCode"}
NopOpcodes == {"OpNoOp", "OpNoOp1", "OpNoOp10"}
SmallIntOpcodes == {"Op1", "Op2", "Op3"}
PushDataOpcodes == {"OpData1", "OpData2"}
ConditionalOpcodes == {"OpIf", "OpIfNot", "OpElse", "OpEndIf"}

Opcodes ==
    DisabledOpcodes \cup ReservedOpcodes \cup InvalidOpcodes
        \cup NopOpcodes \cup SmallIntOpcodes \cup ConditionalOpcodes
        \cup PushDataOpcodes \cup {"OpZero", "OpReturn"}

\* the number a small integer opcode stands for: op.opcode.value - (Op1 - 1)
SmallIntValue(op) ==
    CASE op = "Op1" -> 1
      [] op = "Op2" -> 2
      [] op = "Op3" -> 3
      [] OTHER -> 16

\* OpRShift is missing from the switch
isDisabledButRShift(op) == op \in DisabledOpcodes \ {"OpRShift"}

\* parsedOpcode.isDisabled
isDisabled(op) ==
    op \in {"OpCat", "OpSubstr", "OpLeft", "OpRight", "OpInvert", "OpAnd",
            "OpOr", "OpXor", "Op1Mul", "Op2Div", "OpMul", "OpDiv", "OpMod",
            "OpLShift", "OpRShift"}

\* no opcode is illegal off its branch
alwaysIllegalNever(op) == FALSE

\* parsedOpcode.alwaysIllegal
alwaysIllegal(op) == op \in {"OpVerIf", "OpVerIfNot"}

\* parsedOpcode.isConditional
isConditional(op) == op \in {"OpIf", "OpIfNot", "OpElse", "OpEndIf"}

\* The engine state a handler works on and returns.
VM(d, c, e) == [dstack |-> d, condStack |-> c, err |-> e]
Failed(vm, e) == [vm EXCEPT !.err = e]

\* Engine.isBranchExecuting: no marker of the condition stack is False or
\* Skip
isBranchExecuting(cs) == \A i \in 1..Len(cs) : cs[i] = OpCondTrue

\* the number of bytes of an item, as far as popIfBool looks at it
LongerThanOneByte(item) ==
    item.tag \in {"sig", "key", "data"}
        \/ (item.tag = "num" /\ (item.v > 127 \/ item.v < -127))

\* asBool: the empty string and a string of zero bytes are false
asBool(item) == item # Empty /\ item # ZeroByte

opcodeDisabled(op, vm) == Failed(vm, ErrDisabledOpcode)
opcodeReserved(op, vm) == Failed(vm, ErrReservedOpcode)
opcodeInvalid(op, vm) == Failed(vm, ErrReservedOpcode)
opcodeReturn(op, vm) == Failed(vm, ErrEarlyReturn)
opcodeFalse(op, vm) == [vm EXCEPT !.dstack = Append(@, Empty)]
opcodeN(op, vm) ==
    [vm EXCEPT !.dstack = Append(@, ScriptNum(SmallIntValue(op)))]

\* op.data: the byte 0x00 of the OpData1, two other bytes of the OpData2
OpData(op) == IF op = "OpData1" THEN ZeroByte ELSE Data(op)
opcodePushData(op, vm) == [vm EXCEPT !.dstack = Append(@, OpData(op))]

\* every opcode of the NOP family is kept for upgrades
opcodeNopAllUpgradable(op, vm, fl) ==
    IF hasFlag(fl, ScriptDiscourageUpgradableNops)
    THEN Failed(vm, ErrDiscourageUpgradableNOPs)
    ELSE vm

opcodeNop(op, vm, fl) ==
    IF op \in {"OpNoOp1", "OpNoOp4", "OpNoOp5", "OpNoOp6", "OpNoOp7",
               "OpNoOp8", "OpNoOp9", "OpNoOp10"}
          /\ hasFlag(fl, ScriptDiscourageUpgradableNops)
    THEN Failed(vm, ErrDiscourageUpgradableNOPs)
    ELSE vm

\* under minimal-if only the length of the item is checked
popIfBoolOnlyLength(st, fl, wit) ==
    IF Len(st) < 1
    THEN [dstack |-> st, ok |-> FALSE, err |-> ErrInvalidStackOperation]
    ELSE IF (~wit \/ ~hasFlag(fl, ScriptVerifyMinimalIf))
             \/ ~LongerThanOneByte(Top(st))
    THEN [dstack |-> Pop(st), ok |-> asBool(Top(st)), err |-> NoErr]
    ELSE [dstack |-> Pop(st), ok |-> FALSE, err |-> ErrMinimalIf]

\* popIfBool: the stack after the pop, the boolean and the error
popIfBool(st, fl, wit) ==
    IF Len(st) < 1
    THEN [dstack |-> st, ok |-> FALSE, err |-> ErrInvalidStackOperation]
    ELSE IF ~wit \/ ~hasFlag(fl, ScriptVerifyMinimalIf)
    THEN [dstack |-> Pop(st), ok |-> asBool(Top(st)), err |-> NoErr]
    ELSE IF LongerThanOneByte(Top(st))
    THEN [dstack |-> Pop(st), ok |-> FALSE, err |-> ErrMinimalIf]
    ELSE IF Top(st) # Empty /\ Top(st) # ScriptNum(1)
    THEN [dstack |-> Pop(st), ok |-> FALSE, err |-> ErrMinimalIf]
    ELSE [dstack |-> Pop(st), ok |-> asBool(Top(st)), err |-> NoErr]

\* the condition is popped and evaluated on a non-executing branch too
opcodeIfOrNotIfAlwaysPops(vm, fl, wit, negate) ==
    LET b == popIfBool(vm.dstack, fl, wit)
    IN  IF b.err # NoErr
        THEN VM(b.dstack, vm.condStack, b.err)
        ELSE VM(b.dstack,
                Append(vm.condStack,
                       IF b.ok # negate THEN OpCondTrue ELSE OpCondFalse),
                NoErr)

\* opcodeIf (negate = FALSE) and opcodeNotIf (negate = TRUE)
opcodeIfOrNotIf(vm, fl, wit, negate) ==
    IF isBranchExecuting(vm.condStack)
    THEN LET b == popIfBool(vm.dstack, fl, wit)
         IN  IF b.err # NoErr
             THEN VM(b.dstack, vm.condStack, b.err)
             ELSE VM(b.dstack,
                     Append(vm.condStack,
                            IF b.ok # negate THEN OpCondTrue
                            ELSE OpCondFalse),
                     NoErr)
    ELSE [vm EXCEPT !.condStack = Append(@, OpCondSkip)]

opcodeIf(op, vm, fl, wit) == opcodeIfOrNotIf(vm, fl, wit, FALSE)
opcodeNotIf(op, vm, fl, wit) == opcodeIfOrNotIf(vm, fl, wit, TRUE)

\* OpElse checks the nesting and flips nothing
opcodeElseNoFlip(op, vm) ==
    IF Len(vm.condStack) = 0 THEN Failed(vm, ErrUnbalancedConditional)
    ELSE vm

\* OpElse closes the branch of the OpIf and never opens one again
opcodeElseOnlyOnce(op, vm) ==
    IF Len(vm.condStack) = 0 THEN Failed(vm, ErrUnbalancedConditional)
    ELSE LET conditionalIdx == Len(vm.condStack)
             cond == vm.condStack[conditionalIdx]
         IN  [vm EXCEPT !.condStack[conditionalIdx] =
                 IF cond = OpCondTrue THEN OpCondFalse ELSE cond]

opcodeElse(op, vm) ==
    IF Len(vm.condStack) = 0 THEN Failed(vm, ErrUnbalancedConditional)
    ELSE LET conditionalIdx == Len(vm.condStack)
             cond == vm.condStack[conditionalIdx]
         IN  [vm EXCEPT !.condStack[conditionalIdx] =
                 IF cond = OpCondTrue THEN OpCondFalse
                 ELSE IF cond = OpCondFalse THEN OpCondTrue
                 ELSE cond]

\* OpEndIf on an empty condition stack is let through
opcodeEndifUnchecked(op, vm) == [vm EXCEPT !.condStack = Pop(@)]

\* OpEndIf checks the nesting and pops nothing
opcodeEndifKeeps(op, vm) ==
    IF Len(vm.condStack) = 0 THEN Failed(vm, ErrUnbalancedConditional)
    ELSE vm

opcodeEndif(op, vm) ==
    IF Len(vm.condStack) = 0 THEN Failed(vm, ErrUnbalancedConditional)
    ELSE [vm EXCEPT !.condStack = Pop(@)]

(***************************************************************************)
(* Numbers on the stack.  A lock time on the stack has up to 5 bytes and   *)
(* the sequence number of an input has 32 bits, so a number is kept as the *)
(* pair of its bits above bit 30 and its low 31 bits: Wide(h, l) is        *)
(* h * 2^31 + l.                                                           *)
(***************************************************************************)
ErrNegativeLockTime == "ErrNegativeLockTime"
ErrUnsatisfiedLockTime == "ErrUnsatisfiedLockTime"
ErrNumberTooBig == "ErrNumberTooBig"
ErrMinimalData == "ErrMinimalData"

ScriptVerifyCheckLockTimeVerify == "ScriptVerifyCheckLockTimeVerify"
ScriptVerifyCheckSequenceVerify == "ScriptVerifyCheckSequenceVerify"
ScriptVerifyMinimalData == "ScriptVerifyMinimalData"

Wide(h, l) == [hi |-> h, lo |-> l]
WideLess(a, b) == a.hi < b.hi \/ (a.hi = b.hi /\ a.lo < b.lo)

\* LockTimeThreshold: lock times below it are block heights, the others
\* are times
LockTimeThreshold == 500000000
\* wire.MaxTxInSequenceNum, 0xffffffff
MaxTxInSequenceNum == Wide(1, 2147483647)
\* wire.SequenceLockTimeIsSeconds, bit 22
SequenceLockTimeIsSeconds == 4194304
\* wire.SequenceLockTimeMask, the low 16 bits
SequenceLockTimeMask == 65535

\* w & wire.SequenceLockTimeDisabled != 0: bit 31 of w
SequenceLockTimeDisabled(w) == w.hi % 2 = 1

\* w & SequenceLockTimeMask: the magnitude bits alone
MaskedMagnitudeOnly(w) == w.lo % (SequenceLockTimeMask + 1)

\* w & (SequenceLockTimeIsSeconds | SequenceLockTimeMask)
Masked(w) ==
    ((w.lo \div SequenceLockTimeIsSeconds) % 2) * SequenceLockTimeIsSeconds
        + (w.lo % (SequenceLockTimeMask + 1))

\* A number item whose value does not fit ScriptNum(i), or whose encoding
\* is not the minimal one.
\*   len      the number of bytes of the item
\*   minimal  the item is the shortest encoding of its value
\*   neg      the sign bit of the last byte
\*   mag      the magnitude
NumItem(len, minimal, neg, mag) ==
    [tag |-> "widenum", len |-> len, minimal |-> minimal, neg |-> neg,
     mag |-> mag]

Abs(i) == IF i < 0 THEN -i ELSE i

\* the number of bytes of the minimal encoding of a number below 2^31
NumLen(i) ==
    IF Abs(i) <= 127 THEN 1
    ELSE IF Abs(i) <= 32767 THEN 2
    ELSE IF Abs(i) <= 8388607 THEN 3
    ELSE 4

ScriptNumResult(e, neg, mag) == [err |-> e, neg |-> neg, mag |-> mag]

\* makeScriptNum(v, requireMinimal, scriptNumLen): the item is too long,
\* or not minimal where that is required, or it is a number
makeScriptNum(item, requireMinimal, scriptNumLen) ==
    CASE item.tag = "empty" -> ScriptNumResult(NoErr, FALSE, Wide(0, 0))
      [] item.tag = "zero" ->
            IF 1 > scriptNumLen
            THEN ScriptNumResult(ErrNumberTooBig, FALSE, Wide(0, 0))
            ELSE IF requireMinimal
            THEN ScriptNumResult(ErrMinimalData, FALSE, Wide(0, 0))
            ELSE ScriptNumResult(NoErr, FALSE, Wide(0, 0))
      [] item.tag = "num" ->
            IF NumLen(item.v) > scriptNumLen
            THEN ScriptNumResult(ErrNumberTooBig, FALSE, Wide(0, 0))
            ELSE ScriptNumResult(NoErr, item.v < 0, Wide(0, Abs(item.v)))
      [] item.tag = "widenum" ->
            IF item.len > scriptNumLen
            THEN ScriptNumResult(ErrNumberTooBig, FALSE, Wide(0, 0))
            ELSE IF requireMinimal /\ ~item.minimal
            THEN ScriptNumResult(ErrMinimalData, FALSE, Wide(0, 0))
            ELSE ScriptNumResult(NoErr, item.neg, item.mag)

\* n < 0
Negative(n) == n.neg /\ n.mag # Wide(0, 0)

\* stack.PeekByteArray(0): the top item, which stays on the stack
PeekResult(e, so, d) == [err |-> e, so |-> so, dstack |-> d]

\* the item is taken off the stack
PeekByteArrayPops(st) ==
    IF st = <<>> THEN PeekResult(ErrInvalidStackOperation, Empty, st)
    ELSE PeekResult(NoErr, Top(st), Pop(st))

PeekByteArray(st) ==
    IF st = <<>> THEN PeekResult(ErrInvalidStackOperation, Empty, st)
    ELSE PeekResult(NoErr, Top(st), st)

(***************************************************************************)
(* OpVerify, OpEqual, OpNumEqual, OpAdd and the opcodes that end with a    *)
(* verify.                                                                 *)
(***************************************************************************)
ErrVerify == "ErrVerify"
ErrEqualVerify == "ErrEqualVerify"
ErrNumEqualVerify == "ErrNumEqualVerify"
ErrCheckSigVerify == "ErrCheckSigVerify"
ErrCheckMultiSigVerify == "ErrCheckMultiSigVerify"

\* what a handler that uses only the data stack leaves behind
Stacked(d, e) == [dstack |-> d, err |-> e]

\* stack.PopByteArray
PopByteArray(st) ==
    IF st = <<>> THEN PeekResult(ErrInvalidStackOperation, Empty, st)
    ELSE PeekResult(NoErr, Top(st), Pop(st))

\* stack.PopInt: the item is popped and then decoded as a number of at
\* most 4 bytes
PopInt(st, fl) ==
    LET p == PopByteArray(st)
        n == makeScriptNum(p.so, hasFlag(fl, ScriptVerifyMinimalData), 4)
    IN  IF p.err # NoErr
        THEN [err |-> p.err, n |-> ScriptNumResult(NoErr, FALSE, Wide(0, 0)),
              dstack |-> p.dstack]
        ELSE [err |-> n.err, n |-> n, dstack |-> p.dstack]

\* v0 == v1
NumEqual(v0, v1) ==
    v0.mag = v1.mag /\ (v0.neg = v1.neg \/ v0.mag = Wide(0, 0))

\* the boolean stays on the stack
abstractVerifyPeeks(st, c) ==
    IF st = <<>> THEN Stacked(st, ErrInvalidStackOperation)
    ELSE IF ~asBool(Top(st)) THEN Stacked(st, c)
    ELSE Stacked(st, NoErr)

\* abstractVerify(op, vm, c): vm.dstack.PopBool(), and the error kind c when
\* the boolean is false
abstractVerify(st, c) ==
    LET p == PopByteArray(st)
    IN  IF p.err # NoErr THEN Stacked(p.dstack, p.err)
        ELSE IF ~asBool(p.so) THEN Stacked(p.dstack, c)
        ELSE Stacked(p.dstack, NoErr)

opcodeVerify(st) == abstractVerify(st, ErrVerify)

opcodeEqual(st) ==
    LET a == PopByteArray(st)
        b == PopByteArray(a.dstack)
    IN  IF a.err # NoErr THEN Stacked(a.dstack, a.err)
        ELSE IF b.err # NoErr THEN Stacked(b.dstack, b.err)
        ELSE Stacked(Append(b.dstack, BoolItem(a.so = b.so)), NoErr)

opcodeEqualVerify(st) ==
    LET r == opcodeEqual(st)
    IN  IF r.err = NoErr THEN abstractVerify(r.dstack, ErrEqualVerify) ELSE r

opcodeNumEqual(st, fl) ==
    LET v0 == PopInt(st, fl)
        v1 == PopInt(v0.dstack, fl)
    IN  IF v0.err # NoErr THEN Stacked(v0.dstack, v0.err)
        ELSE IF v1.err # NoErr THEN Stacked(v1.dstack, v1.err)
        ELSE IF NumEqual(v0.n, v1.n)
        THEN Stacked(Append(v1.dstack, ScriptNum(1)), NoErr)
        ELSE Stacked(Append(v1.dstack, ScriptNum(0)), NoErr)

opcodeNumEqualVerify(st, fl) ==
    LET r == opcodeNumEqual(st, fl)
    IN  IF r.err = NoErr
        THEN abstractVerify(r.dstack, ErrNumEqualVerify)
        ELSE r

\* opcodeVerify, opcodeEqual, ... work on the data stack alone: the state
\* the handler returns has the stack and the error r holds
Handled(vm, r) == [vm EXCEPT !.dstack = r.dstack, !.err = r.err]

\* a number of at most 4 bytes as an integer
IntOf(n) == IF n.neg THEN -n.mag.lo ELSE n.mag.lo

\* an operand is missing and the handler returns no error
opcodeAddIgnoresUnderflow(st, fl) ==
    LET v0 == PopInt(st, fl)
        v1 == PopInt(v0.dstack, fl)
    IN  IF v0.err # NoErr THEN Stacked(v0.dstack, v0.err)
        ELSE IF v1.err = ErrInvalidStackOperation
        THEN Stacked(v1.dstack, NoErr)
        ELSE IF v1.err # NoErr THEN Stacked(v1.dstack, v1.err)
        ELSE Stacked(Append(v1.dstack, ScriptNum(IntOf(v0.n) + IntOf(v1.n))),
                     NoErr)

opcodeAdd(st, fl) ==
    LET v0 == PopInt(st, fl)
        v1 == PopInt(v0.dstack, fl)
    IN  IF v0.err # NoErr THEN Stacked(v0.dstack, v0.err)
        ELSE IF v1.err # NoErr THEN Stacked(v1.dstack, v1.err)
        ELSE Stacked(Append(v1.dstack, ScriptNum(IntOf(v0.n) + IntOf(v1.n))),
                     NoErr)

(***************************************************************************)
(* The handler of every opcode.                                            *)
(***************************************************************************)
\* op.opcode.opfunc(op, vm), as the opcodeArray assigns the handlers
opfunc(op, vm, fl, wit) ==
    CASE op \in DisabledOpcodes -> opcodeDisabled(op, vm)
      [] op \in ReservedOpcodes -> opcodeReserved(op, vm)
      [] op \in InvalidOpcodes -> opcodeInvalid(op, vm)
      [] op \in NopOpcodes -> opcodeNop(op, vm, fl)
      [] op \in SmallIntOpcodes -> opcodeN(op, vm)
      [] op \in PushDataOpcodes -> opcodePushData(op, vm)
      [] op = "OpZero" -> opcodeFalse(op, vm)
      [] op = "OpReturn" -> opcodeReturn(op, vm)
      [] op = "OpIf" -> opcodeIf(op, vm, fl, wit)
      [] op = "OpIfNot" -> opcodeNotIf(op, vm, fl, wit)
      [] op = "OpElse" -> opcodeElse(op, vm)
      [] op = "OpEndIf" -> opcodeEndif(op, vm)
      [] op = "OpVerify" -> Handled(vm, opcodeVerify(vm.dstack))
      [] op = "OpEqual" -> Handled(vm, opcodeEqual(vm.dstack))
      [] op = "OpEqualVerify" -> Handled(vm, opcodeEqualVerify(vm.dstack))
      [] op = "OpAdd" -> Handled(vm, opcodeAdd(vm.dstack, fl))
      [] op = "OpNumEqual" -> Handled(vm, opcodeNumEqual(vm.dstack, fl))

\* Engine.executeOpcode: the always-illegal and the disabled opcodes fail
\* wherever the program counter meets them; the conditional opcodes always
\* run; every other opcode runs only on an executing branch.
executeOpcode(op, vm, fl, wit) ==
    IF alwaysIllegal(op) THEN Failed(vm, ErrReservedOpcode)
    ELSE IF isDisabled(op) THEN Failed(vm, ErrDisabledOpcode)
    ELSE IF ~isBranchExecuting(vm.condStack) /\ ~isConditional(op) THEN vm
    ELSE opfunc(op, vm, fl, wit)

(***************************************************************************)
(* The engine steps through a script: every step the program counter       *)
(* passes one more opcode, which may be any opcode.                        *)
(***************************************************************************)
EngineFlags == {ScriptDiscourageUpgradableNops, ScriptVerifyMinimalIf}

Init ==
    /\ dstack = <<>>
    /\ condStack = <<>>
    /\ numOps = 0
    /\ flags \in SUBSET EngineFlags
    /\ witness \in BOOLEAN
    /\ sigCache = NoCache
    /\ err = NoErr
    /\ pc = "running"
    /\ pcOp = "none"
    /\ steps = 0
    /\ ms = NoMS
    /\ calls = <<>>
    /\ stack0 = <<>>
    /\ condStack0 = <<>>
    /\ cache0 = sigCache
    /\ numOps0 = numOps
    /\ script = <<>>
    /\ astack = <<>>
    /\ tx = NoTx
    /\ dec = NoDec
    /\ ld = NoLoader
    /\ evals = <<>>

\* Engine.Step on the opcode op: the opcode at the program counter is
\* executed; an error ends the evaluation
Executed(op) ==
    LET r == executeOpcode(op, VM(dstack, condStack, NoErr), flags, witness)
    IN  /\ dstack' = r.dstack
        /\ condStack' = r.condStack
        /\ err' = r.err
        /\ pc' = IF r.err = NoErr THEN "running" ELSE "failed"
        /\ pcOp' = op
        /\ stack0' = dstack
        /\ condStack0' = condStack
        /\ steps' = steps + 1
        /\ UNCHANGED <<numOps, flags, witness, sigCache, ms, calls, cache0,
                       numOps0, evals,
                   astack, tx, dec, ld>>

\* the script holds any opcode next
Step ==
    /\ pc = "running"
    /\ steps < MaxScriptLen
    /\ \E op \in Opcodes : Executed(op)
    /\ UNCHANGED script

Next == Step

Spec == Init /\ [][Next]_vars

\* C1: when the program counter reaches a disabled opcode the evaluation
\* fails with the disabled-opcode error, whether or not the surrounding
\* branch is executing.
C1_DisabledAlwaysFails ==
    pcOp \in {"OpCat", "OpSubstr", "OpLeft", "OpRight", "OpInvert", "OpAnd",
              "OpOr", "OpXor", "Op1Mul", "Op2Div", "OpMul", "OpDiv", "OpMod",
              "OpLShift", "OpRShift"}
    => err = ErrDisabledOpcode /\ pc = "failed"

\* a disabled opcode met inside the branch of an OpIf that is not taken
C1_Witness ==
    /\ pcOp = "OpRShift"
    /\ Len(condStack) = 1
    /\ condStack[1] = OpCondFalse
    /\ err = ErrDisabledOpcode

\* C18: an OpElse or OpEndIf met while the condition stack is empty ends
\* the evaluation with the unbalanced-conditional error and leaves the
\* condition stack and the data stack as they were; no other opcode and no
\* other condition stack gives that error.
C18_Unbalanced ==
    /\ (pcOp \in {"OpElse", "OpEndIf"} /\ condStack0 = <<>>)
         => /\ err = ErrUnbalancedConditional
            /\ pc = "failed"
            /\ condStack = <<>>
            /\ dstack = stack0
    /\ err = ErrUnbalancedConditional
         => pcOp \in {"OpElse", "OpEndIf"} /\ condStack0 = <<>>

\* an OpEndIf after a conditional was opened and closed, over a data stack
\* that is not empty
C18_Witness ==
    /\ pcOp = "OpEndIf"
    /\ steps = 4
    /\ condStack0 = <<>>
    /\ stack0 = <<ScriptNum(2)>>
    /\ dstack = <<ScriptNum(2)>>
    /\ err = ErrUnbalancedConditional

\* the last opcode was an OpIf or OpIfNot met on an executing branch with
\* an item to pop, and the item
IfOnBranch ==
    /\ pcOp \in {"OpIf", "OpIfNot"}
    /\ isBranchExecuting(condStack0)
    /\ Len(stack0) >= 1
IfCondition == Top(stack0)
\* the minimal-if flag is set and a version 0 witness program is executed
MinimalIfActive == witness /\ hasFlag(flags, ScriptVerifyMinimalIf)
\* the marker OpIf (OpIfNot) pushes for the boolean b
Marker(b) == IF b = (pcOp = "OpIf") THEN OpCondTrue ELSE OpCondFalse

FailingOnBranch ==
    {"OpReturn", "OpReserved", "OpVer", "OpReserved1", "OpReserved2"}
        \cup InvalidOpcodes

\* C20: OpVerIf and OpVerIfNot end the evaluation with an error wherever
\* the program counter meets them, on a branch that is not executing too;
\* OpReturn, OpReserved, OpVer, OpReserved1, OpReserved2 and the undefined
\* opcodes end it with an error when met on an executing branch, and when
\* met on a branch that is not executing they change neither stack and the
\* evaluation goes on.
C20_IllegalVersusSkipped ==
    /\ pcOp \in {"OpVerIf", "OpVerIfNot"}
         => err = ErrReservedOpcode /\ pc = "failed"
    /\ (pcOp \in FailingOnBranch /\ isBranchExecuting(condStack0))
         => /\ err = IF pcOp = "OpReturn" THEN ErrEarlyReturn
                      ELSE ErrReservedOpcode
            /\ pc = "failed"
    /\ (pcOp \in FailingOnBranch /\ ~isBranchExecuting(condStack0))
         => /\ err = NoErr
            /\ pc = "running"
            /\ dstack = stack0
            /\ condStack = condStack0

\* an OpVerIf met in a branch that is not taken, over a stack that is not
\* empty
C20_Witness ==
    /\ pcOp = "OpVerIf"
    /\ condStack0 = <<OpCondFalse>>
    /\ stack0 # <<>>
    /\ err = ErrReservedOpcode

(***************************************************************************)
(* The engine steps through a script of pushes and conditional opcodes,    *)
(* and the opcodes passed are recorded.                                    *)
(***************************************************************************)
PushOpcodes == {"OpZero"} \cup SmallIntOpcodes
BranchOpcodes == PushOpcodes \cup ConditionalOpcodes

InitBranch ==
    /\ Init
    /\ flags = {}
    /\ witness = FALSE

BranchStep ==
    /\ pc = "running"
    /\ steps < MaxBranchLen
    /\ \E op \in BranchOpcodes :
          /\ Executed(op)
          /\ script' = Append(script, op)

NextBranch == BranchStep

SpecBranch == InitBranch /\ [][NextBranch]_vars

\* the item a push opcode pushes, and the items a sequence of them pushes
PushedItem(op) ==
    IF op = "OpZero" THEN Empty ELSE ScriptNum(SmallIntValue(op))
IsPushes(ops) == \A i \in 1..Len(ops) : ops[i] \in PushOpcodes
PushedItems(ops) == [i \in 1..Len(ops) |-> PushedItem(ops[i])]

\* the script passed so far is <v> c A OpElse B OpEndIf with the OpElse at
\* position k, where v is a push, c is OpIf or OpIfNot, and A and B are
\* sequences of pushes
SingleConditional(k) ==
    /\ Len(script) >= 4
    /\ k \in 3..(Len(script) - 1)
    /\ script[1] \in PushOpcodes
    /\ script[2] \in {"OpIf", "OpIfNot"}
    /\ script[k] = "OpElse"
    /\ script[Len(script)] = "OpEndIf"
    /\ IsPushes(SubSeq(script, 3, k - 1))
    /\ IsPushes(SubSeq(script, k + 1, Len(script) - 1))

\* C15: after <v> OpIf A OpElse B OpEndIf the evaluation goes on with an
\* empty condition stack and the data stack holds what A pushes when v is
\* true and what B pushes when v is false; with OpIfNot in the place of
\* OpIf it is the reverse.  1 IF 2 ELSE 3 ENDIF leaves 2 and
\* 0 IF 2 ELSE 3 ENDIF leaves 3.
C15_OneBranchExecutes ==
    /\ \A k \in 3..MaxBranchLen + 1 :
          SingleConditional(k)
          => /\ err = NoErr
             /\ condStack = <<>>
             /\ dstack =
                   IF asBool(PushedItem(script[1])) = (script[2] = "OpIf")
                   THEN PushedItems(SubSeq(script, 3, k - 1))
                   ELSE PushedItems(SubSeq(script, k + 1, Len(script) - 1))
    /\ script = <<"Op1", "OpIf", "Op2", "OpElse", "Op3", "OpEndIf">>
         => dstack = <<ScriptNum(2)>> /\ err = NoErr
    /\ script = <<"OpZero", "OpIf", "Op2", "OpElse", "Op3", "OpEndIf">>
         => dstack = <<ScriptNum(3)>> /\ err = NoErr

\* 0 NOTIF 2 ELSE 3 ENDIF has left 2
C15_Witness ==
    /\ script = <<"OpZero", "OpIfNot", "Op2", "OpElse", "Op3", "OpEndIf">>
    /\ dstack = <<ScriptNum(2)>>
    /\ condStack = <<>>
    /\ err = NoErr

\* the opcodes passed that returned no error: all but a last failed one
Succeeded ==
    IF err = NoErr THEN script ELSE SubSeq(script, 1, Len(script) - 1)
\* how many of the opcodes ops are in the set S
Count(ops, S) == Cardinality({i \in 1..Len(ops) : ops[i] \in S})

\* C16: after any sequence of opcodes the length of the condition stack is
\* the number of OpIf and OpIfNot that returned no error less the number of
\* OpEndIf that returned no error; an OpIf or OpIfNot that returns no error
\* makes it one longer on an executing and on a non-executing branch alike,
\* an OpEndIf one shorter, and OpElse and the other opcodes leave its
\* length as it was.
C16_CondStackLength ==
    /\ Len(condStack) = Count(Succeeded, {"OpIf", "OpIfNot"})
                            - Count(Succeeded, {"OpEndIf"})
    /\ err = NoErr
         => /\ pcOp \in {"OpIf", "OpIfNot"}
                 => Len(condStack) = Len(condStack0) + 1
            /\ pcOp = "OpEndIf" => Len(condStack) = Len(condStack0) - 1
            /\ pcOp \notin {"OpIf", "OpIfNot", "OpEndIf"}
                 => Len(condStack) = Len(condStack0)
    /\ err # NoErr => Len(condStack) = Len(condStack0)

\* an OpIf inside a branch that is not taken was counted, and both levels
\* were closed
C16_Witness ==
    /\ script = <<"OpZero", "OpIf", "OpIf", "OpElse", "OpEndIf", "OpEndIf">>
    /\ condStack = <<>>
    /\ condStack0 = <<OpCondFalse>>
    /\ err = NoErr

\* the last opcode was met on a branch that was not executing
MetOffBranch == pcOp # "none" /\ ~isBranchExecuting(condStack0)

\* C17: an OpIf or OpIfNot met on a branch that is not executing pushes the
\* Skip marker and leaves the data stack as it was; OpElse leaves a Skip
\* marker as it was; no opcode met on a branch that is not executing
\* changes the data stack or fails, and a push met there changes nothing;
\* no opcode changes a marker below the innermost one, and every marker
\* above a marker that is not True is Skip, at every depth, so that a
\* branch that is not executing stays so until its own OpElse or OpEndIf.
C17_SkipNested ==
    /\ (MetOffBranch /\ pcOp \in {"OpIf", "OpIfNot"})
         => /\ condStack = Append(condStack0, OpCondSkip)
            /\ dstack = stack0
            /\ err = NoErr
    /\ (pcOp = "OpElse" /\ Len(condStack0) > 0
            /\ Top(condStack0) = OpCondSkip)
         => condStack = condStack0 /\ err = NoErr
    /\ MetOffBranch => dstack = stack0 /\ err = NoErr
    /\ (MetOffBranch /\ pcOp \in PushOpcodes) => condStack = condStack0
    /\ \A i \in 1..Len(condStack0) - 1 :
          i <= Len(condStack) /\ condStack[i] = condStack0[i]
    /\ \A i \in 2..Len(condStack) :
          (condStack[i] = OpCondSkip) = (condStack[i - 1] # OpCondTrue)
    /\ Len(condStack) > 0 => condStack[1] # OpCondSkip

\* a push met two levels inside a branch that is not taken, after an inner
\* OpElse: nothing was pushed
C17_Witness ==
    /\ script = <<"OpZero", "OpIf", "OpIfNot", "OpIf", "OpElse", "Op1">>
    /\ condStack = <<OpCondFalse, OpCondSkip, OpCondSkip>>
    /\ dstack = <<>>
    /\ err = NoErr

(***************************************************************************)
(* opcodeCheckSig                                                          *)
(***************************************************************************)
\* what a handler leaves behind
Result(d, e, c, cl) == [dstack |-> d, err |-> e, cache |-> c, calls |-> cl]

\* len(sigBytes) > 0: bytes are left once the hash type byte is cut off
BodyNonEmpty(sig) == sig.tag = "sig" /\ sig.body

\* line 2119: a failed check of a non-empty signature body under null-fail
CheckSigNullFail(fl, valid, sig) ==
    ~valid /\ hasFlag(fl, ScriptVerifyNullFail) /\ BodyNonEmpty(sig)

\* the short circuit of lines 2030-2034 left out
CheckSigNoShortCircuit(fullSig) == FALSE

\* lines 2030-2034: the signature item has no hash type byte
CheckSigShortCircuit(fullSig) == fullSig = Empty

opcodeCheckSig(st, fl, wit, cache) ==
    IF Len(st) < 1 THEN Result(st, ErrInvalidStackOperation, cache, <<>>)
    ELSE IF Len(st) < 2
    THEN Result(Pop(st), ErrInvalidStackOperation, cache, <<>>)
    ELSE
    LET pk == Top(st)
        fullSig == Top(Pop(st))
        rest == Pop(Pop(st))
        c1 == <<Call("checkHashTypeEncoding", 1, 0)>>
        c2 == c1 \o <<Call("checkSignatureEncoding", 1, 0)>>
        c3 == c2 \o <<Call("checkPubKeyEncoding", 0, 1)>>
        c4 == c3 \o <<Call(HashName(wit), 1, 0), Call("ParsePubKey", 0, 1)>>
        c5 == c4 \o <<Call(ParserName(fl), 1, 0)>>
    IN
    IF CheckSigShortCircuit(fullSig)
    THEN Result(Append(rest, BoolItem(FALSE)), NoErr, cache, <<>>)
    ELSE IF checkHashTypeEncoding(fl, fullSig) # NoErr
    THEN Result(rest, checkHashTypeEncoding(fl, fullSig), cache, c1)
    ELSE IF checkSignatureEncoding(fl, fullSig) # NoErr
    THEN Result(rest, checkSignatureEncoding(fl, fullSig), cache, c2)
    ELSE IF checkPubKeyEncoding(fl, pk) # NoErr
    THEN Result(rest, checkPubKeyEncoding(fl, pk), cache, c3)
    ELSE IF ~ParsePubKeyOk(pk)
    THEN Result(Append(rest, BoolItem(FALSE)), NoErr, cache, c4)
    ELSE IF ~ParseSigOk(fl, fullSig)
    THEN Result(Append(rest, BoolItem(FALSE)), NoErr, cache, c5)
    ELSE
    LET v == CachedVerify(cache, fullSig, pk, 1, 1)
    IN  IF CheckSigNullFail(fl, v.valid, fullSig)
        THEN Result(rest, ErrNullFail, v.cache, c5 \o v.calls)
        ELSE Result(Append(rest, BoolItem(v.valid)), NoErr, v.cache,
                    c5 \o v.calls)

(***************************************************************************)
(* opcodeCheckMultiSig                                                     *)
(***************************************************************************)
\* the first k items popped off st, in pop order
PopItems(st, k) == [i \in 1..k |-> st[Len(st) + 1 - i]]
\* st with its k top items popped
PopRest(st, k) == SubSeq(st, 1, Len(st) - k)

\* the largest public key count is refused
BadPubKeyCountOffByOne(numPubKeys) ==
    numPubKeys < 0 \/ numPubKeys >= MaxPubKeysPerMultiSig

\* lines 2162 and 2168: the public key count is out of range
BadPubKeyCount(numPubKeys) ==
    numPubKeys < 0 \/ numPubKeys > MaxPubKeysPerMultiSig

\* lines 2199 and 2205: the signature count is out of range
BadSignatureCount(numSignatures, numPubKeys) ==
    numSignatures < 0 \/ numSignatures > numPubKeys

\* line 2221: &parsedSigInfo{signature: signature}
ParsedSigInfo(signature) ==
    [signature |-> signature, parsed |-> FALSE, parsedSignature |-> FALSE]

\* what the operand phase leaves behind: the stack, the counter, the error
\* and, when there is none, the locals the scan starts from
Popped(d, ops, e, locals) ==
    [dstack |-> d, numOps |-> ops, err |-> e, ms |-> locals]

\* the scan starts with the first public key already the candidate
ScanStartAtFirstKey(pubKeys, signatures) ==
    [state |-> "scan",
     pubKeys |-> pubKeys,
     signatures |-> signatures,
     success |-> TRUE,
     numPubKeys |-> Len(pubKeys) + 1,
     pubKeyIdx |-> 0,
     numSignatures |-> Len(signatures),
     signatureIdx |-> 0,
     iters |-> <<>>]

\* lines 2251-2254: the locals at the head of the scan loop
ScanStart(pubKeys, signatures) ==
    [state |-> "scan",
     pubKeys |-> pubKeys,
     signatures |-> signatures,
     success |-> TRUE,
     numPubKeys |-> Len(pubKeys) + 1,
     pubKeyIdx |-> -1,
     numSignatures |-> Len(signatures),
     signatureIdx |-> 0,
     iters |-> <<>>]

\* the dummy is looked at and left on the stack
DummyNotPopped(st) == st

\* line 2226: the stack once the dummy is popped
DummyPopped(st) == Pop(st)

\* the dummy must be empty whatever the flags are
DummyRejectedAlways(fl, dummy) == dummy # Empty

\* line 2233: a dummy that is not empty under the strict multisig flag
DummyRejected(fl, dummy) == hasFlag(fl, ScriptStrictMultiSig) /\ dummy # Empty

\* the operation counts as one whatever the number of public keys is
OpsCountedOnce(ops, numPubKeys) == ops + 1

\* line 2174: vm.numOps += numPubKeys
OpsCounted(ops, numPubKeys) == ops + numPubKeys

\* lines 2156-2254: the counts, keys, signatures and the dummy are popped
\* and checked
MultiSigOperands(st, ops, fl) ==
    IF Len(st) < 1 THEN Popped(st, ops, ErrInvalidStackOperation, NoMS)
    ELSE
    LET numPubKeys == AsInt(Top(st))
        st1 == Pop(st)
        ops1 == OpsCounted(ops, numPubKeys)
    IN
    IF BadPubKeyCount(numPubKeys)
    THEN Popped(st1, ops, ErrInvalidPubKeyCount, NoMS)
    ELSE IF ops1 > MaxOpsPerScript
    THEN Popped(st1, ops1, ErrTooManyOperations, NoMS)
    ELSE IF Len(st1) < numPubKeys
    THEN Popped(<<>>, ops1, ErrInvalidStackOperation, NoMS)
    ELSE
    LET pubKeys == PopItems(st1, numPubKeys)
        st2 == PopRest(st1, numPubKeys)
    IN
    IF Len(st2) < 1 THEN Popped(st2, ops1, ErrInvalidStackOperation, NoMS)
    ELSE
    LET numSignatures == AsInt(Top(st2))
        st3 == Pop(st2)
    IN
    IF BadSignatureCount(numSignatures, numPubKeys)
    THEN Popped(st3, ops1, ErrInvalidSignatureCount, NoMS)
    ELSE IF Len(st3) < numSignatures
    THEN Popped(<<>>, ops1, ErrInvalidStackOperation, NoMS)
    ELSE
    LET sigItems == PopItems(st3, numSignatures)
        signatures == [i \in 1..numSignatures |-> ParsedSigInfo(sigItems[i])]
        st4 == PopRest(st3, numSignatures)
    IN
    IF Len(st4) < 1 THEN Popped(st4, ops1, ErrInvalidStackOperation, NoMS)
    ELSE
    LET dummy == Top(st4)
        st5 == DummyPopped(st4)
    IN
    IF DummyRejected(fl, dummy)
    THEN Popped(st5, ops1, ErrSigNullDummy, NoMS)
    ELSE Popped(st5, ops1, NoErr, ScanStart(pubKeys, signatures))

\* the scan gives up one public key early
EarlyExitOffByOne(numSignatures, numPubKeys) == numSignatures >= numPubKeys

\* line 2262: more signatures are left than public keys
EarlyExit(numSignatures, numPubKeys) == numSignatures > numPubKeys

\* after a match the scan of the public keys starts over
AfterVerifyRewind(l, valid) ==
    IF valid
    THEN [l EXCEPT !.signatureIdx = @ + 1, !.numSignatures = @ - 1,
                   !.pubKeyIdx = -1, !.numPubKeys = Len(l.pubKeys) + 1]
    ELSE l

\* after a match the matched public key stays the candidate
AfterVerifyKeepsKey(l, valid) ==
    IF valid
    THEN [l EXCEPT !.signatureIdx = @ + 1, !.numSignatures = @ - 1,
                   !.pubKeyIdx = @ - 1, !.numPubKeys = @ + 1]
    ELSE l

\* lines 2381-2386: a verified signature moves the scan to the next one
AfterVerify(l, valid) ==
    IF valid
    THEN [l EXCEPT !.signatureIdx = @ + 1, !.numSignatures = @ - 1]
    ELSE l

\* the outcome of the parse is not kept
MarkParsedForgets(l, s, parsedOk) == l

\* lines 2308-2314: sigInfo.parsed = true, and the parsed signature is kept
\* when there is one
MarkParsed(l, s, parsedOk) ==
    [l EXCEPT !.signatures[s].parsed = TRUE,
              !.signatures[s].parsedSignature = parsedOk]

\* One iteration of the scan has run: the locals, the error, the cache and
\* the calls made. outcome names the path the iteration took.  The iteration is recorded with the pointers and counters it tested (at).
Iterated(at, l, outcome, e, c, cl) ==
    [ms |-> [l EXCEPT !.iters = Append(@,
                [signatureIdx |-> at.signatureIdx,
                 pubKeyIdx |-> at.pubKeyIdx,
                 numSignatures |-> at.numSignatures,
                 numPubKeys |-> at.numPubKeys,
                 outcome |-> outcome])],
     err |-> e, cache |-> c, calls |-> cl]

\* the run-time panic of an index outside a slice
PanicIndexOutOfRange == "panic: index out of range"

\* lines 2267-2268: signatures[signatureIdx] and pubKeys[pubKeyIdx] are
\* inside their slices
IndexInRange(l) ==
    /\ 0 <= l.signatureIdx /\ l.signatureIdx < Len(l.signatures)
    /\ 0 <= l.pubKeyIdx /\ l.pubKeyIdx < Len(l.pubKeys)

\* a signature that did not parse is tried against the public key
SkipUnparsedNever(parsedOk) == FALSE

\* lines 2310-2313 and 2319-2322: continue when the parse of the signature
\* failed, now or at an earlier public key
SkipUnparsed(parsedOk) == ~parsedOk

\* the scan stays on the first public key
NextCandidateStays(l) ==
    IF l.pubKeyIdx = -1
    THEN [l EXCEPT !.pubKeyIdx = @ + 1, !.numPubKeys = @ - 1]
    ELSE l

\* lines 2259-2260: pubKeyIdx++, numPubKeys--
NextCandidate(l) == [l EXCEPT !.pubKeyIdx = @ + 1, !.numPubKeys = @ - 1]

\* lines 2256-2387: one iteration of the scan loop from the locals l
ScanIteration(l, fl, wit, cache) ==
    LET l1 == NextCandidate(l)
    IN
    IF EarlyExit(l1.numSignatures, l1.numPubKeys)
    THEN Iterated(l1, [l1 EXCEPT !.success = FALSE, !.state = "break"],
                  "exit", NoErr, cache, <<>>)
    ELSE
    LET s == l1.signatureIdx + 1
        k == l1.pubKeyIdx + 1
        sigInfo == l1.signatures[s]
        pubKey == l1.pubKeys[k]
        rawSig == sigInfo.signature
        first == ~sigInfo.parsed
        parsedOk == IF first THEN ParseSigOk(fl, rawSig)
                    ELSE sigInfo.parsedSignature
        l2 == IF first THEN MarkParsed(l1, s, parsedOk) ELSE l1
        c1 == IF first THEN <<Call("checkHashTypeEncoding", s, 0)>> ELSE <<>>
        c2 == IF first
              THEN c1 \o <<Call("checkSignatureEncoding", s, 0)>> ELSE <<>>
        c3 == IF first THEN c2 \o <<Call(ParserName(fl), s, 0)>> ELSE <<>>
        c4 == c3 \o <<Call("checkPubKeyEncoding", 0, k)>>
        c5 == c4 \o <<Call("ParsePubKey", 0, k)>>
        c6 == c5 \o <<Call(HashName(wit), s, 0)>>
    IN
    IF ~IndexInRange(l1)
    THEN Iterated(l1, [l1 EXCEPT !.state = "error"], "panic",
                  PanicIndexOutOfRange, cache, <<>>)
    ELSE IF rawSig = Empty
    THEN Iterated(l1, l1, "emptySignature", NoErr, cache, <<>>)
    ELSE IF first /\ checkHashTypeEncoding(fl, rawSig) # NoErr
    THEN Iterated(l1, [l1 EXCEPT !.state = "error"], "error",
                  checkHashTypeEncoding(fl, rawSig), cache, c1)
    ELSE IF first /\ checkSignatureEncoding(fl, rawSig) # NoErr
    THEN Iterated(l1, [l1 EXCEPT !.state = "error"], "error",
                  checkSignatureEncoding(fl, rawSig), cache, c2)
    ELSE IF SkipUnparsed(parsedOk)
    THEN Iterated(l1, l2, IF first THEN "signatureParseError"
                      ELSE "signatureSkipped", NoErr, cache, c3)
    ELSE IF checkPubKeyEncoding(fl, pubKey) # NoErr
    THEN Iterated(l1, [l2 EXCEPT !.state = "error"], "error",
                  checkPubKeyEncoding(fl, pubKey), cache, c4)
    ELSE IF ~ParsePubKeyOk(pubKey)
    THEN Iterated(l1, l2, "pubKeyParseError", NoErr, cache, c5)
    ELSE
    LET v == CachedVerify(cache, rawSig, pubKey, s, k)
        l3 == AfterVerify(l2, v.valid)
    IN  Iterated(l1, l3, IF v.valid THEN "valid" ELSE "invalid", NoErr,
                 v.cache, c6 \o v.calls)

\* line 2392: a signature item that is not empty was supplied
SomeSignatureNonEmpty(signatures) ==
    \E i \in 1..Len(signatures) : signatures[i].signature # Empty

\* null-fail applied only when every signature item is non-empty
MultiSigNullFailAll(fl, success, signatures) ==
    /\ ~success
    /\ hasFlag(fl, ScriptVerifyNullFail)
    /\ \A i \in 1..Len(signatures) : signatures[i].signature # Empty

\* lines 2388-2398: the failed result under null-fail
MultiSigNullFail(fl, success, signatures) ==
    /\ ~success
    /\ hasFlag(fl, ScriptVerifyNullFail)
    /\ SomeSignatureNonEmpty(signatures)

\* lines 2256-2387: the scan loop run from the locals l to its end
RECURSIVE ScanLoop(_, _, _, _, _)
ScanLoop(l, fl, wit, cache, cl) ==
    IF l.state = "scan" /\ l.numSignatures > 0
    THEN LET r == ScanIteration(l, fl, wit, cache)
         IN  IF r.err # NoErr
             THEN [r EXCEPT !.calls = cl \o @]
             ELSE ScanLoop(r.ms, fl, wit, r.cache, cl \o r.calls)
    ELSE [ms |-> l, err |-> NoErr, cache |-> cache, calls |-> cl]

\* opcodeCheckMultiSig from entry to return: the stack, the error, the
\* cache and the calls it leaves behind
opcodeCheckMultiSig(st, ops, fl, wit, cache) ==
    LET p == MultiSigOperands(st, ops, fl)
    IN  IF p.err # NoErr THEN Result(p.dstack, p.err, cache, <<>>)
        ELSE
        LET r == ScanLoop(p.ms, fl, wit, cache, <<>>)
        IN  IF r.err # NoErr
            THEN Result(p.dstack, r.err, r.cache, r.calls)
            ELSE IF MultiSigNullFail(fl, r.ms.success, r.ms.signatures)
            THEN Result(p.dstack, ErrNullFail, r.cache, r.calls)
            ELSE Result(Append(p.dstack, BoolItem(r.ms.success)), NoErr,
                        r.cache, r.calls)

(***************************************************************************)
(* OpCheckMultiSig run on its own.  The stack holds, from the bottom, an   *)
(* unrelated item, the dummy, the signatures, their count, the public keys *)
(* and their count.                                                        *)
(***************************************************************************)
MultiSigFlags ==
    {ScriptVerifyStrictEncoding, ScriptVerifyDERSignatures,
     ScriptVerifyNullFail, ScriptStrictMultiSig}

Dummies == {Empty, Data("dummy")}

\* the operands as the script pushes them: the first item popped is last
MultiSigArgs(dummy, sigs, numSigs, keys, numKeys) ==
    <<dummy>> \o sigs \o <<ScriptNum(numSigs)>> \o keys
        \o <<ScriptNum(numKeys)>>

SeqsUpTo(S, n) == UNION {[1..k -> S] : k \in 0..n}

\* well formed operands over an unrelated item
MultiSigStacks ==
    {<<Bottom>> \o MultiSigArgs(d, sigs, Len(sigs), keys, Len(keys)) :
        <<d, sigs, keys>> \in
            {t \in Dummies \X SeqsUpTo(MultiSigSigs, MaxKeys)
                      \X SeqsUpTo(MultiSigKeys, MaxKeys) :
                Len(t[2]) <= Len(t[3])}}

\* counts out of range, or more than the items the stack holds
BadCountStacks ==
    {<<Bottom>> \o MultiSigArgs(Empty, sigs, c[1], keys, c[2]) :
        <<sigs, keys, c>> \in
            {t \in SeqsUpTo({SigFor(1)}, MaxKeys)
                      \X SeqsUpTo({Key(1)}, MaxKeys)
                      \X ((-1 .. MaxKeys + 1)
                            \X {-1, MaxPubKeysPerMultiSig,
                                MaxPubKeysPerMultiSig + 1}) :
                TRUE}}
      \cup
    {<<Bottom>> \o MultiSigArgs(Empty, sigs, c, keys, Len(keys)) :
        <<sigs, keys, c>> \in
            {t \in SeqsUpTo({SigFor(1)}, MaxKeys)
                      \X SeqsUpTo({Key(1)}, MaxKeys)
                      \X (-1 .. MaxKeys + 1) :
                t[3] = -1 \/ t[3] > Len(t[2])}}

\* operands whose bottom items are missing
ShortStacks ==
    {SubSeq(st, k, Len(st)) : <<st, k>> \in
        {t \in {MultiSigArgs(Empty, sigs, Len(sigs), keys, Len(keys)) :
                    <<sigs, keys>> \in
                        {u \in SeqsUpTo({SigFor(1)}, MaxKeys)
                                  \X SeqsUpTo({Key(1)}, MaxKeys) :
                            Len(u[1]) <= Len(u[2])}}
                \X (2 .. 2 * MaxKeys + 4) :
            t[2] <= Len(t[1]) + 1}}

InitCheckMultiSig ==
    /\ \/ /\ dstack \in MultiSigStacks
          /\ flags \in SUBSET MultiSigFlags
          /\ numOps = 1
          /\ sigCache \in {NoCache, Cache({})}
       \/ /\ dstack \in BadCountStacks \cup ShortStacks
          /\ flags = {}
          /\ numOps = 1
          /\ sigCache = NoCache
       \/ /\ dstack \in MultiSigStacks
          /\ flags = {}
          /\ numOps = MaxOpsPerScript - 1
          /\ sigCache = NoCache
    /\ stack0 = dstack
    /\ condStack0 = <<>>
    /\ cache0 = sigCache
    /\ numOps0 = numOps
    /\ script = <<>>
    /\ astack = <<>>
    /\ tx = NoTx
    /\ dec = NoDec
    /\ ld = NoLoader
    /\ evals = <<>>
    /\ witness = FALSE
    /\ condStack = <<>>
    /\ err = NoErr
    /\ pc = "OpCheckMultiSig"
    /\ pcOp = "OpCheckMultiSig"
    /\ steps = 0
    /\ ms = NoMS
    /\ calls = <<>>

\* lines 2156-2254
CheckMultiSigOperands ==
    /\ pc = "OpCheckMultiSig"
    /\ LET r == MultiSigOperands(dstack, numOps, flags)
       IN  /\ dstack' = r.dstack
           /\ numOps' = r.numOps
           /\ err' = r.err
           /\ ms' = r.ms
           /\ pc' = IF r.err = NoErr THEN "scan" ELSE "done"
    /\ UNCHANGED <<condStack, flags, witness, sigCache, pcOp, steps, calls,
                   stack0,
                   condStack0, cache0, numOps0, script, evals,
                   astack, tx, dec, ld>>

\* lines 2256-2387: the loop condition holds and one iteration runs
CheckMultiSigScan ==
    /\ pc = "scan"
    /\ ms.state = "scan"
    /\ ms.numSignatures > 0
    /\ LET r == ScanIteration(ms, flags, witness, sigCache)
       IN  /\ ms' = r.ms
           /\ err' = r.err
           /\ sigCache' = r.cache
           /\ calls' = calls \o r.calls
           /\ pc' = IF r.err = NoErr THEN "scan" ELSE "done"
    /\ UNCHANGED <<dstack, condStack, numOps, flags, witness, pcOp, steps,
                   stack0,
                   condStack0, cache0, numOps0, script, evals,
                   astack, tx, dec, ld>>

\* lines 2388-2400: the loop has ended; null-fail, then the result is pushed
CheckMultiSigResult ==
    /\ pc = "scan"
    /\ ms.state = "break" \/ ms.numSignatures = 0
    /\ IF MultiSigNullFail(flags, ms.success, ms.signatures)
       THEN err' = ErrNullFail /\ UNCHANGED dstack
       ELSE err' = NoErr /\ dstack' = Append(dstack, BoolItem(ms.success))
    /\ ms' = [ms EXCEPT !.state = "returned"]
    /\ pc' = "done"
    /\ UNCHANGED <<condStack, numOps, flags, witness, sigCache, pcOp, steps,
                   calls, stack0,
                   condStack0, cache0, numOps0, script, evals,
                   astack, tx, dec, ld>>

NextCheckMultiSig ==
    \/ CheckMultiSigOperands
    \/ CheckMultiSigScan
    \/ CheckMultiSigResult

SpecCheckMultiSig == InitCheckMultiSig /\ [][NextCheckMultiSig]_vars

(***************************************************************************)
(* The operands as the stack held them when OpCheckMultiSig was entered,   *)
(* read off stack0 by position.                                            *)
(***************************************************************************)
MultiSigEntered == pcOp = "OpCheckMultiSig" /\ Len(stack0) >= 1
\* n: the public key count
NumKeys0 == AsInt(Top(stack0))
KeysPresent0 ==
    MultiSigEntered /\ NumKeys0 >= 0 /\ Len(stack0) >= NumKeys0 + 2
\* the public keys, in pop order
Keys0 == PopItems(Pop(stack0), NumKeys0)
\* m: the signature count
NumSigs0 == AsInt(stack0[Len(stack0) - NumKeys0 - 1])
SigsPresent0 ==
    KeysPresent0 /\ NumSigs0 >= 0
        /\ Len(stack0) >= NumKeys0 + NumSigs0 + 2
\* the signature items, in pop order
Sigs0 == PopItems(PopRest(stack0, NumKeys0 + 2), NumSigs0)
\* the stack below the n + m + 3 operands
MultiSigRest == PopRest(stack0, NumKeys0 + NumSigs0 + 3)

\* the handler has returned
MultiSigReturned == pc = "done" /\ pcOp = "OpCheckMultiSig"
\* the handler has returned from line 2400 with the result pushed
MultiSigCompleted == MultiSigReturned /\ err = NoErr

\* the signature item parses under the flags and verifies against the key
Matches(sig, key) ==
    /\ sig.tag = "sig"
    /\ key.tag = "key"
    /\ IF ScriptVerifyStrictEncoding \in flags
            \/ ScriptVerifyDERSignatures \in flags
       THEN sig.der ELSE sig.lax
    /\ key.parses
    /\ sig.signer = key.id

\* a strictly increasing map from the signatures to the public keys under
\* which every signature verifies against its key
OrderedMatching(sigs, keys) ==
    \E f \in [1..Len(sigs) -> 1..Len(keys)] :
        /\ \A i, j \in 1..Len(sigs) : i < j => f[i] < f[j]
        /\ \A i \in 1..Len(sigs) : Matches(sigs[i], keys[f[i]])

\* C2: whenever OpCheckMultiSig completes without error, the boolean it
\* pushed is true exactly when a strictly increasing map from the
\* signatures to the public keys (both in pop order) exists under which
\* every signature verifies against its key.
C2_ResultIsOrderedMatching ==
    MultiSigCompleted
    => (Top(dstack) = BoolItem(TRUE)) = OrderedMatching(Sigs0, Keys0)

\* the signatures of both keys in the order opposite to the keys: false
C2_Witness ==
    /\ MultiSigCompleted
    /\ Keys0 = <<Key(1), Key(2)>>
    /\ Sigs0 = <<SigFor(2), SigFor(1)>>
    /\ Top(dstack) = BoolItem(FALSE)

\* C3: an OpCheckMultiSig that completes without error has removed exactly
\* the n + m + 3 top items and pushed one boolean onto what was below them,
\* for every m and n; when only the dummy is missing the opcode fails and
\* pushes nothing.
C3_PopsDummyPushesOne ==
    /\ MultiSigCompleted
         => /\ SigsPresent0
            /\ Len(stack0) >= NumKeys0 + NumSigs0 + 3
            /\ Len(dstack) = Len(stack0) - (NumKeys0 + NumSigs0 + 3) + 1
            /\ Pop(dstack) = MultiSigRest
            /\ Top(dstack) \in {BoolItem(TRUE), BoolItem(FALSE)}
    /\ (MultiSigReturned /\ SigsPresent0
            /\ NumKeys0 <= MaxPubKeysPerMultiSig
            /\ NumSigs0 <= NumKeys0
            /\ numOps <= MaxOpsPerScript
            /\ Len(stack0) = NumKeys0 + NumSigs0 + 2)
         => err = ErrInvalidStackOperation /\ dstack = <<>>

\* zero signatures of zero keys: the dummy is popped all the same
C3_Witness ==
    /\ MultiSigCompleted
    /\ NumKeys0 = 0
    /\ NumSigs0 = 0
    /\ stack0 = <<Bottom, Data("dummy"), Empty, Empty>>
    /\ dstack = <<Bottom, BoolItem(TRUE)>>

\* the iterations of the scan run so far
Iters == IF ms.state = "none" THEN <<>> ELSE ms.iters
\* the calls of Verify made so far
VerifyCalls == {i \in 1..Len(calls) : calls[i].fn = "Verify"}
\* the iterations that matched a signature to a public key
ValidIters == {i \in 1..Len(Iters) : Iters[i].outcome = "valid"}

\* C4: in one scan the public key pointer advances on every iteration and
\* the signature pointer advances only on a successful verification, so
\* each public key is tested against at most one signature, no key is
\* matched to two signatures and no signature to two keys.
C4_PointersAdvance ==
    /\ \A i \in 1..Len(Iters) :
          /\ Iters[i].pubKeyIdx = i - 1
          /\ Iters[i].signatureIdx =
                Cardinality({j \in ValidIters : j < i})
    /\ \A i, j \in VerifyCalls : calls[i].key = calls[j].key => i = j
    /\ \A i, j \in ValidIters :
          (\/ Iters[i].pubKeyIdx = Iters[j].pubKeyIdx
           \/ Iters[i].signatureIdx = Iters[j].signatureIdx) => i = j

\* a completed scan in which two signatures were matched, each to its own key
C4_Witness ==
    /\ MultiSigCompleted
    /\ Cardinality(ValidIters) = 2
    /\ Cardinality(VerifyCalls) >= 2
    /\ Len(Iters) >= 2

\* the signatures not yet matched and the public keys not yet tried
\* (counting the candidate) at an iteration, from the operand counts
UnmatchedSigs(it) == NumSigs0 - it.signatureIdx
UntriedKeys(it) == NumKeys0 - it.pubKeyIdx

\* C5: the scan stops with the result false exactly at the first iteration
\* at which the unmatched signatures outnumber the untried public keys; it
\* does not give up before and does not go on after.
C5_EarlyExitExact ==
    /\ \A i \in 1..Len(Iters) :
          /\ (Iters[i].outcome = "exit")
                = (UnmatchedSigs(Iters[i]) > UntriedKeys(Iters[i]))
          /\ Iters[i].outcome = "exit" => i = Len(Iters) /\ ~ms.success
    /\ (MultiSigCompleted /\ Len(Iters) > 0
            /\ Iters[Len(Iters)].outcome = "exit")
         => Top(dstack) = BoolItem(FALSE)
    /\ (MultiSigCompleted /\ Top(dstack) = BoolItem(FALSE))
         => Len(Iters) > 0 /\ Iters[Len(Iters)].outcome = "exit"

\* the scan gave up after trying a key, with a key still untried
C5_Witness ==
    /\ MultiSigCompleted
    /\ Len(Iters) = 2
    /\ Iters[2].outcome = "exit"
    /\ NumKeys0 = 2
    /\ NumSigs0 = 2
    /\ Top(dstack) = BoolItem(FALSE)

\* the scan ended, by the early exit or with every signature matched
ScanEnded == MultiSigReturned /\ ms.state = "returned"
SomeSigNonEmpty0 == \E i \in 1..NumSigs0 : Sigs0[i] # Empty

\* C9: when the scan ends in failure under null-fail, the opcode ends with
\* the null-fail error and pushes nothing if a supplied signature item is
\* non-empty, and pushes false if all are empty; on success, or without
\* the flag, there is no null-fail error.
C9_MultiSigNullFail ==
    /\ ScanEnded
         => /\ (~ms.success /\ ScriptVerifyNullFail \in flags
                    /\ SomeSigNonEmpty0)
                 => err = ErrNullFail /\ dstack = MultiSigRest
            /\ (~ms.success /\ ScriptVerifyNullFail \in flags
                    /\ ~SomeSigNonEmpty0)
                 => err = NoErr
                      /\ dstack = Append(MultiSigRest, BoolItem(FALSE))
            /\ (ms.success \/ ScriptVerifyNullFail \notin flags)
                 => err = NoErr
                      /\ dstack = Append(MultiSigRest, BoolItem(ms.success))
    /\ err = ErrNullFail
         => ScanEnded /\ ~ms.success /\ ScriptVerifyNullFail \in flags

\* an empty and a non-empty signature, failure: the null-fail error
C9_Witness ==
    /\ ScanEnded
    /\ ScriptVerifyNullFail \in flags
    /\ NumSigs0 = 2
    /\ Sigs0[1] = Empty
    /\ Sigs0[2] # Empty
    /\ err = ErrNullFail

\* the public key count was read within the operation limit and the
\* public keys were on the stack
SigCountReached ==
    /\ KeysPresent0
    /\ NumKeys0 <= MaxPubKeysPerMultiSig
    /\ numOps <= MaxOpsPerScript

\* C10: a public key count that is negative or above MaxPubKeysPerMultiSig
\* is rejected with the invalid-pubkey-count error, a signature count that
\* is negative or above the public key count with the
\* invalid-signature-count error; counts in range never are; nothing is
\* pushed and no signature is examined.
C10_CountsRejected ==
    MultiSigReturned
    => /\ (MultiSigEntered
             /\ (NumKeys0 < 0 \/ NumKeys0 > MaxPubKeysPerMultiSig))
            => err = ErrInvalidPubKeyCount
       /\ err = ErrInvalidPubKeyCount
            => /\ NumKeys0 < 0 \/ NumKeys0 > MaxPubKeysPerMultiSig
               /\ dstack = Pop(stack0)
       /\ (SigCountReached /\ (NumSigs0 < 0 \/ NumSigs0 > NumKeys0))
            => err = ErrInvalidSignatureCount
       /\ err = ErrInvalidSignatureCount
            => /\ SigCountReached
               /\ NumSigs0 < 0 \/ NumSigs0 > NumKeys0
               /\ dstack = PopRest(stack0, NumKeys0 + 2)
       /\ err \in {ErrInvalidPubKeyCount, ErrInvalidSignatureCount}
            => calls = <<>> /\ Iters = <<>>

\* twenty-one public keys announced: the count is refused
C10_Witness ==
    /\ MultiSigReturned
    /\ NumKeys0 = MaxPubKeysPerMultiSig + 1
    /\ err = ErrInvalidPubKeyCount

\* the counts were in range and the n + m + 3 operands were on the stack
DummyReached ==
    /\ SigsPresent0
    /\ NumKeys0 <= MaxPubKeysPerMultiSig
    /\ NumSigs0 <= NumKeys0
    /\ numOps <= MaxOpsPerScript
    /\ Len(stack0) >= NumKeys0 + NumSigs0 + 3
\* the dummy, and the stack at entry with another item in its place
Dummy0 == stack0[Len(stack0) - NumKeys0 - NumSigs0 - 2]
WithDummy(d) == [stack0 EXCEPT ![Len(stack0) - NumKeys0 - NumSigs0 - 2] = d]

\* C11: under the strict multisig flag OpCheckMultiSig ends with the
\* null-dummy error whenever the dummy is not the empty string, for every m
\* and n, before any signature is examined; without the flag no dummy is
\* refused, and the stack and the error the opcode leaves are those it
\* leaves when the dummy is the empty string.
C11_StrictDummy ==
    (MultiSigReturned /\ DummyReached)
    => /\ (hasFlag(flags, ScriptStrictMultiSig) /\ Dummy0 # Empty)
            => /\ err = ErrSigNullDummy
               /\ dstack = MultiSigRest
               /\ calls = <<>>
               /\ Iters = <<>>
       /\ (hasFlag(flags, ScriptStrictMultiSig) /\ Dummy0 = Empty)
            => err # ErrSigNullDummy
       /\ ~hasFlag(flags, ScriptStrictMultiSig)
            => /\ err # ErrSigNullDummy
               /\ LET r == opcodeCheckMultiSig(WithDummy(Empty), numOps0,
                                               flags, witness, cache0)
                  IN  dstack = r.dstack /\ err = r.err

\* a dummy that is not empty, no flag, and the signature is matched
C11_Witness ==
    /\ MultiSigCompleted
    /\ DummyReached
    /\ ~hasFlag(flags, ScriptStrictMultiSig)
    /\ Dummy0 = Data("dummy")
    /\ NumSigs0 = 1
    /\ Top(dstack) = BoolItem(TRUE)

\* the functions that check the encoding of a signature and parse it
SigParseFns ==
    {"checkHashTypeEncoding", "checkSignatureEncoding", "ParseDERSignature",
     "ParseSignature"}
\* the calls made for the signature at position s, any function of F
SigCalls(F, s) == {i \in 1..Len(calls) : calls[i].fn \in F /\ calls[i].sig = s}

\* C12: during one scan each of the hash type check, the signature encoding
\* check and the signature parse is called at most once for a signature
\* position, however many public keys the signature is tried against; once
\* the parse of a signature has failed, every later iteration is on that
\* signature and skips it or leaves the scan, and nothing but those three
\* calls is ever made for it.
C12_ParsedOnce ==
    /\ \A s \in 1..MaxKeys + 1 :
          \A i, j \in SigCalls(SigParseFns, s) :
              calls[i].fn = calls[j].fn => i = j
    /\ \A i \in 1..Len(Iters) :
          Iters[i].outcome = "signatureParseError"
          => /\ \A j \in (i + 1)..Len(Iters) :
                   /\ Iters[j].signatureIdx = Iters[i].signatureIdx
                   /\ Iters[j].outcome \in {"signatureSkipped", "exit"}
                   /\ \A c \in 1..Len(calls) :
                         calls[c].key # Iters[j].pubKeyIdx + 1
             /\ \A c \in 1..Len(calls) :
                   calls[c].sig = Iters[i].signatureIdx + 1
                   => calls[c].fn \in SigParseFns
    /\ \A j \in 1..Len(Iters) :
          Iters[j].outcome = "signatureSkipped"
          => \E i \in 1..(j - 1) :
                /\ Iters[i].outcome = "signatureParseError"
                /\ Iters[i].signatureIdx = Iters[j].signatureIdx

\* a signature that does not parse was met at the first public key and
\* skipped at the second, after one call of each check and of the parser
C12_Witness ==
    /\ MultiSigCompleted
    /\ Len(Iters) >= 2
    /\ Iters[1].outcome = "signatureParseError"
    /\ Iters[2].outcome = "signatureSkipped"
    /\ Cardinality(SigCalls(SigParseFns, 1)) = 3

(***************************************************************************)
(* OpCheckSig run on its own: the inputs are the two items on top of the   *)
(* stack (or fewer), the flags, the witness mode and the cache.            *)
(***************************************************************************)
CheckSigStacks ==
    {<<>>}
        \cup {<<k>> : k \in CheckSigKeys}
        \cup {<<s, k>> : s \in CheckSigSigs, k \in CheckSigKeys}
        \cup {<<Bottom, s, k>> : s \in CheckSigSigs, k \in CheckSigKeys}

InitCheckSig ==
    /\ dstack \in CheckSigStacks
    /\ stack0 = dstack
    /\ condStack0 = <<>>
    /\ script = <<>>
    /\ astack = <<>>
    /\ tx = NoTx
    /\ dec = NoDec
    /\ ld = NoLoader
    /\ evals = <<>>
    /\ flags \in SUBSET SigFlags
    /\ witness \in BOOLEAN
    /\ sigCache \in {NoCache, Cache({})}
    /\ cache0 = sigCache
    /\ condStack = <<>>
    /\ numOps = 1
    /\ numOps0 = numOps
    /\ err = NoErr
    /\ pc = "OpCheckSig"
    /\ pcOp = "OpCheckSig"
    /\ steps = 0
    /\ ms = NoMS
    /\ calls = <<>>

CheckSig ==
    /\ pc = "OpCheckSig"
    /\ LET r == opcodeCheckSig(dstack, flags, witness, sigCache)
       IN  /\ dstack' = r.dstack
           /\ err' = r.err
           /\ sigCache' = r.cache
           /\ calls' = calls \o r.calls
    /\ pc' = "done"
    /\ UNCHANGED <<condStack, numOps, flags, witness, pcOp, steps, ms, stack0,
                   condStack0, cache0, numOps0, script, evals,
                   astack, tx, dec, ld>>

NextCheckSig == CheckSig

SpecCheckSig == InitCheckSig /\ [][NextCheckSig]_vars

\* the handler has run on a stack holding both of its operands
CheckSigRan == pc = "done" /\ pcOp = "OpCheckSig" /\ Len(stack0) >= 2
CheckSigPk == Top(stack0)
CheckSigFullSig == Top(Pop(stack0))
CheckSigRest == Pop(Pop(stack0))
PushedFalse == err = NoErr /\ dstack = Append(CheckSigRest, Empty)
PushedTrue == err = NoErr /\ dstack = Append(CheckSigRest, ScriptNum(1))

\* the strict-mode flag that governs a malformation of the operands is set
MalformedUnderStrictFlag ==
    \/ hasFlag(flags, ScriptVerifyStrictEncoding)
          /\ (~CheckSigFullSig.hashOk \/ ~CheckSigFullSig.encOk
                \/ ~CheckSigPk.encOk)
    \/ hasFlag(flags, ScriptVerifyDERSignatures) /\ ~CheckSigFullSig.encOk

\* an operand is malformed and no strict-mode flag is set
MalformedNoStrictFlag ==
    /\ ~CheckSigFullSig.hashOk \/ ~CheckSigFullSig.encOk \/ ~CheckSigPk.encOk
    /\ ~hasFlag(flags, ScriptVerifyStrictEncoding)
    /\ ~hasFlag(flags, ScriptVerifyDERSignatures)

\* C6 (as claimed): with the null-fail flag set, OpCheckSig never pushes
\* false for a non-empty signature item; a check that does not succeed ends
\* in the null-fail error with nothing pushed.
C6_NullFailNeverPushesFalse ==
    (CheckSigRan /\ hasFlag(flags, ScriptVerifyNullFail)
        /\ CheckSigFullSig # Empty)
    => ~PushedFalse

\* C7: OpCheckSig on an empty signature item pops the public key and the
\* signature, pushes false and returns no error, under every flag
\* combination and for every public key, and calls no encoding check, no
\* signature hash, no parser, no verification and no cache function.
C7_EmptySigPushesFalse ==
    (CheckSigRan /\ CheckSigFullSig = Empty)
    => /\ PushedFalse
       /\ calls = <<>>

C7_Witness ==
    /\ CheckSigRan
    /\ CheckSigFullSig = Empty
    /\ CheckSigPk = KeyBad
    /\ flags = SigFlags
    /\ sigCache.present
    /\ PushedFalse

VerifiedTriples ==
    {CacheKey(p[1], p[2]) : p \in
        {q \in (CheckSigSigs \cup MultiSigSigs)
                  \X (CheckSigKeys \cup MultiSigKeys) :
            /\ q[1].tag = "sig"
            /\ q[1].der \/ q[1].lax
            /\ ParsePubKeyOk(q[2])
            /\ Verify(q[1], q[2])}}

Caches == {NoCache} \cup {Cache(e) : e \in SUBSET VerifiedTriples}

InitCache ==
    /\ sigCache \in Caches
    /\ cache0 = sigCache
    /\ \/ /\ dstack \in CheckSigStacks
          /\ flags \in SUBSET SigFlags
          /\ witness \in BOOLEAN
          /\ pc = "OpCheckSig"
       \/ /\ dstack \in MultiSigStacks
          /\ flags \in SUBSET {ScriptVerifyNullFail}
          /\ witness = FALSE
          /\ pc = "OpCheckMultiSig"
    /\ pcOp = pc
    /\ stack0 = dstack
    /\ condStack = <<>>
    /\ condStack0 = <<>>
    /\ numOps = 1
    /\ numOps0 = numOps
    /\ err = NoErr
    /\ steps = 0
    /\ ms = NoMS
    /\ calls = <<>>
    /\ script = <<>>
    /\ astack = <<>>
    /\ tx = NoTx
    /\ dec = NoDec
    /\ ld = NoLoader
    /\ evals = <<>>

NextCache ==
    \/ CheckSig
    \/ CheckMultiSigOperands
    \/ CheckMultiSigScan
    \/ CheckMultiSigResult

SpecCache == InitCache /\ [][NextCache]_vars

\* the calls of sigCache.Exists that hit: no call of Verify follows them
CacheHits ==
    {i \in 1..Len(calls) :
        /\ calls[i].fn = "sigCache.Exists"
        /\ \/ i = Len(calls)
           \/ calls[i + 1].fn # "Verify"}

\* C13: for the same stack, operation count, flags and witness mode,
\* OpCheckSig and OpCheckMultiSig leave the stack and the error kind they
\* leave without a cache, whether the cache is absent, empty or holds
\* triples verified earlier.
C13_CacheIndependent ==
    /\ (pc = "done" /\ pcOp = "OpCheckSig")
         => LET r == opcodeCheckSig(stack0, flags, witness, NoCache)
            IN  dstack = r.dstack /\ err = r.err
    /\ MultiSigReturned
         => LET r == opcodeCheckMultiSig(stack0, numOps0, flags, witness,
                                         NoCache)
            IN  dstack = r.dstack /\ err = r.err

\* two signatures matched, one from the cache and one by verification
C13_Witness ==
    /\ MultiSigCompleted
    /\ cache0.present
    /\ Cardinality(cache0.entries) = 1
    /\ Cardinality(CacheHits) = 1
    /\ Cardinality(VerifyCalls) = 1
    /\ Cardinality(ValidIters) = 2
    /\ Top(dstack) = BoolItem(TRUE)

(***************************************************************************)
(* The cached verification of lines 2103-2118 and 2363-2379 run by several *)
(* engines that share one cache.  Each engine has reached the verification *)
(* of its own signature and public key; the calls of sigCache.Exists, of   *)
(* Verify and of sigCache.Add of different engines interleave freely.      *)
(***************************************************************************)
SharedSigs == {SigFor(1), SigFor(2), SigBadHash(1)}
SharedKeys == {Key(1), Key(2), KeyHybrid(1)}

\* the locals of one engine at line 2103
EvalStart(sig, key) ==
    [pc |-> "Exists", sig |-> sig, key |-> key, hit |-> FALSE,
     verified |-> FALSE, ok |-> FALSE, valid |-> FALSE]

InitSharedCache ==
    /\ sigCache \in Caches
    /\ cache0 = sigCache
    /\ evals \in [1..NumEvals -> {EvalStart(sg, k) : sg \in SharedSigs,
                                                     k \in SharedKeys}]
    /\ pc = "shared"
    /\ pcOp = "OpCheckSig"
    /\ dstack = <<>>
    /\ stack0 = <<>>
    /\ condStack = <<>>
    /\ condStack0 = <<>>
    /\ flags = {}
    /\ witness = FALSE
    /\ numOps = 1
    /\ numOps0 = numOps
    /\ err = NoErr
    /\ steps = 0
    /\ ms = NoMS
    /\ calls = <<>>
    /\ script = <<>>
    /\ astack = <<>>
    /\ tx = NoTx
    /\ dec = NoDec
    /\ ld = NoLoader

\* lines 2104-2108: without a cache the engine goes straight to Verify; with
\* one it asks the cache, and a hit is the result
EvalExists(e) ==
    /\ evals[e].pc = "Exists"
    /\ LET hit == sigCache.present
                    /\ CacheHit(sigCache, evals[e].sig, evals[e].key)
       IN  evals' = [evals EXCEPT ![e].hit = hit,
                                  ![e].valid = hit,
                                  ![e].pc = IF hit THEN "done" ELSE "Verify"]
    /\ UNCHANGED <<sigCache, dstack, condStack, numOps, flags, witness, err,
                   pc, pcOp, steps, ms, calls, stack0, condStack0, cache0,
                   numOps0, script,
                   astack, tx, dec, ld>>

\* lines 2109 and 2116: signature.Verify(hash, pubKey)
EvalVerify(e) ==
    /\ evals[e].pc = "Verify"
    /\ LET ok == Verify(evals[e].sig, evals[e].key)
       IN  evals' = [evals EXCEPT ![e].verified = TRUE,
                                  ![e].ok = ok,
                                  ![e].valid = ok,
                                  ![e].pc = IF sigCache.present THEN "Add"
                                            ELSE "done"]
    /\ UNCHANGED <<sigCache, dstack, condStack, numOps, flags, witness, err,
                   pc, pcOp, steps, ms, calls, stack0, condStack0, cache0,
                   numOps0, script,
                   astack, tx, dec, ld>>

\* lines 2109-2113: the triple is added when Verify returned true
EvalAdd(e) ==
    /\ evals[e].pc = "Add"
    /\ sigCache' = CacheAdded(sigCache, evals[e].sig, evals[e].key,
                              evals[e].ok)
    /\ evals' = [evals EXCEPT ![e].pc = "done"]
    /\ UNCHANGED <<dstack, condStack, numOps, flags, witness, err, pc, pcOp,
                   steps, ms, calls, stack0, condStack0, cache0, numOps0,
                   script,
                   astack, tx, dec, ld>>

NextSharedCache ==
    \E e \in 1..NumEvals :
        \/ EvalExists(e)
        \/ EvalVerify(e)
        \/ EvalAdd(e)

SpecSharedCache == InitSharedCache /\ [][NextSharedCache]_vars

\* C14: with engines sharing a cache under any interleaving, every triple
\* the cache has gained is the triple of an engine whose call of Verify on
\* it returned true; an engine whose lookup hit never calls Verify; the
\* triple of a failed verification is not added by it; no entry the cache
\* held is ever missing; and without a cache nothing is stored.
C14_CacheAddsVerifiedOnly ==
    /\ \A t \in sigCache.entries \ cache0.entries :
          \E e \in 1..Len(evals) :
              /\ t = CacheKey(evals[e].sig, evals[e].key)
              /\ evals[e].verified
              /\ evals[e].ok
              /\ Verify(evals[e].sig, evals[e].key)
    /\ \A e \in 1..Len(evals) :
          /\ evals[e].hit => ~evals[e].verified /\ evals[e].valid
          /\ (evals[e].pc = "done" /\ evals[e].verified /\ ~evals[e].ok)
                => /\ ~evals[e].valid
                   /\ CacheKey(evals[e].sig, evals[e].key) \notin
                          sigCache.entries
          /\ (evals[e].pc = "done" /\ evals[e].verified /\ evals[e].ok
                    /\ sigCache.present)
                => CacheKey(evals[e].sig, evals[e].key) \in sigCache.entries
    /\ cache0.entries \subseteq sigCache.entries
    /\ sigCache.present = cache0.present
    /\ ~sigCache.present => sigCache.entries = {}

\* two engines missed on the same triple, both verified it and both added
\* it, while the entry the cache already held stayed
C14_Witness ==
    /\ pc = "shared"
    /\ Len(evals) >= 2
    /\ evals[1].pc = "done" /\ evals[2].pc = "done"
    /\ evals[1].verified /\ evals[2].verified
    /\ evals[1].ok /\ evals[2].ok
    /\ CacheKey(evals[1].sig, evals[1].key)
          = CacheKey(evals[2].sig, evals[2].key)
    /\ Cardinality(cache0.entries) = 1
    /\ Cardinality(sigCache.entries) = 2

(***************************************************************************)
(* OpCheckLockTimeVerify and OpCheckSequenceVerify.                        *)
(***************************************************************************)
\* the lock time is only compared with the lock time of the transaction
verifyLockTimeAnyType(txLockTime, threshold, lockTime) ==
    IF WideLess(txLockTime, lockTime) THEN ErrUnsatisfiedLockTime ELSE NoErr

\* verifyLockTime: both lock times are on the same side of the threshold,
\* and the lock time of the script is not above that of the transaction
verifyLockTime(txLockTime, threshold, lockTime) ==
    IF ~(\/ WideLess(txLockTime, threshold) /\ WideLess(lockTime, threshold)
         \/ ~WideLess(txLockTime, threshold)
                /\ ~WideLess(lockTime, threshold))
    THEN ErrUnsatisfiedLockTime
    ELSE IF WideLess(txLockTime, lockTime) THEN ErrUnsatisfiedLockTime
    ELSE NoErr

\* opcodeCheckLockTimeVerify, run for the input whose fields t holds
opcodeCheckLockTimeVerify(op, vm, fl, t) ==
    IF ~hasFlag(fl, ScriptVerifyCheckLockTimeVerify)
    THEN IF hasFlag(fl, ScriptDiscourageUpgradableNops)
         THEN Failed(vm, ErrDiscourageUpgradableNOPs)
         ELSE vm
    ELSE
    LET p == PeekByteArray(vm.dstack)
        peeked == [vm EXCEPT !.dstack = p.dstack]
        lockTime ==
            makeScriptNum(p.so, hasFlag(fl, ScriptVerifyMinimalData), 5)
        e == verifyLockTime(t.LockTime, Wide(0, LockTimeThreshold),
                            lockTime.mag)
    IN  IF p.err # NoErr THEN Failed(peeked, p.err)
        ELSE IF lockTime.err # NoErr THEN Failed(peeked, lockTime.err)
        ELSE IF Negative(lockTime) THEN Failed(peeked, ErrNegativeLockTime)
        ELSE IF e # NoErr THEN Failed(peeked, e)
        ELSE IF t.Sequence = MaxTxInSequenceNum
        THEN Failed(peeked, ErrUnsatisfiedLockTime)
        ELSE peeked

\* opcodeCheckSequenceVerify, run for the input whose fields t holds
opcodeCheckSequenceVerify(op, vm, fl, t) ==
    IF ~hasFlag(fl, ScriptVerifyCheckSequenceVerify)
    THEN IF hasFlag(fl, ScriptDiscourageUpgradableNops)
         THEN Failed(vm, ErrDiscourageUpgradableNOPs)
         ELSE vm
    ELSE
    LET p == PeekByteArray(vm.dstack)
        peeked == [vm EXCEPT !.dstack = p.dstack]
        stackSequence ==
            makeScriptNum(p.so, hasFlag(fl, ScriptVerifyMinimalData), 5)
        sequence == stackSequence.mag
        txSequence == t.Sequence
    IN  IF p.err # NoErr THEN Failed(peeked, p.err)
        ELSE IF stackSequence.err # NoErr
        THEN Failed(peeked, stackSequence.err)
        ELSE IF Negative(stackSequence)
        THEN Failed(peeked, ErrNegativeLockTime)
        ELSE IF SequenceLockTimeDisabled(sequence) THEN peeked
        ELSE IF t.Version < 2 THEN Failed(peeked, ErrUnsatisfiedLockTime)
        ELSE IF SequenceLockTimeDisabled(txSequence)
        THEN Failed(peeked, ErrUnsatisfiedLockTime)
        ELSE Failed(peeked,
                    verifyLockTime(Wide(0, Masked(txSequence)),
                                   Wide(0, SequenceLockTimeIsSeconds),
                                   Wide(0, Masked(sequence))))

(***************************************************************************)
(* One handler of the NOP family, or one of the two lock time handlers,    *)
(* runs once, for any top item, any flags and any transaction fields.      *)
(***************************************************************************)
NopFamily ==
    {"OpNoOp", "OpNoOp1", "OpNoOp4", "OpNoOp5", "OpNoOp6", "OpNoOp7",
     "OpNoOp8", "OpNoOp9", "OpNoOp10"}

LockTimeFlags ==
    {ScriptVerifyCheckLockTimeVerify, ScriptVerifyCheckSequenceVerify,
     ScriptDiscourageUpgradableNops, ScriptVerifyMinimalData}

\* the items on top of the stack: small and wide numbers on both sides of
\* the threshold and of the bits of a sequence number, a negative number,
\* a number of 6 bytes, and two encodings that are not minimal
LockItems ==
    {Empty, ZeroByte, ScriptNum(-1), ScriptNum(5), ScriptNum(65541),
     ScriptNum(SequenceLockTimeIsSeconds + 5),
     ScriptNum(LockTimeThreshold - 1), ScriptNum(LockTimeThreshold),
     ScriptNum(LockTimeThreshold + 1),
     NumItem(5, TRUE, FALSE, Wide(1, 5)),
     NumItem(5, TRUE, FALSE, Wide(2, 5)),
     NumItem(5, TRUE, TRUE, Wide(1, 5)),
     NumItem(6, TRUE, FALSE, Wide(256, 0)),
     NumItem(2, FALSE, FALSE, Wide(0, 5))}

LockStacks == {<<>>} \cup {<<Bottom, item>> : item \in LockItems}

TxLockTimes ==
    {Wide(0, 0), Wide(0, 5), Wide(0, LockTimeThreshold - 1),
     Wide(0, LockTimeThreshold), Wide(0, LockTimeThreshold + 1), Wide(1, 5)}

TxSequences ==
    {Wide(0, 0), Wide(0, 5), Wide(0, 65541),
     Wide(0, SequenceLockTimeIsSeconds + 5), Wide(1, 5), MaxTxInSequenceNum}

TxVersions == {-1, 1, 2}

InitLockTime ==
    /\ dstack \in LockStacks
    /\ astack = <<Bottom>>
    /\ condStack = <<OpCondTrue>>
    /\ numOps = 0
    /\ flags \in SUBSET LockTimeFlags
    /\ witness = FALSE
    /\ tx \in [LockTime : TxLockTimes, Version : TxVersions,
               Sequence : TxSequences]
    /\ sigCache = NoCache
    /\ err = NoErr
    /\ pc = "ready"
    /\ pcOp = "none"
    /\ steps = 0
    /\ ms = NoMS
    /\ calls = <<>>
    /\ stack0 = dstack
    /\ condStack0 = condStack
    /\ cache0 = sigCache
    /\ numOps0 = numOps
    /\ script = <<>>
    /\ dec = NoDec
    /\ ld = NoLoader
    /\ evals = <<>>

\* the handler has returned the engine state r
Returned(op, r) ==
    /\ dstack' = r.dstack
    /\ condStack' = r.condStack
    /\ err' = r.err
    /\ pc' = "returned"
    /\ pcOp' = op
    /\ UNCHANGED <<numOps, flags, witness, sigCache, steps, ms, calls,
                   stack0, condStack0, cache0, numOps0, script, evals,
                   astack, tx, dec, ld>>

CheckLockTimeVerify ==
    /\ pc = "ready"
    /\ Returned("OpCheckLockTimeVerify",
                opcodeCheckLockTimeVerify("OpCheckLockTimeVerify",
                    VM(dstack, condStack, NoErr), flags, tx))

CheckSequenceVerify ==
    /\ pc = "ready"
    /\ Returned("OpCheckSequenceVerify",
                opcodeCheckSequenceVerify("OpCheckSequenceVerify",
                    VM(dstack, condStack, NoErr), flags, tx))

Nop ==
    /\ pc = "ready"
    /\ \E op \in NopFamily :
          Returned(op, opcodeNop(op, VM(dstack, condStack, NoErr), flags))

NextLockTime == CheckLockTimeVerify \/ CheckSequenceVerify \/ Nop

SpecLockTime == InitLockTime /\ [][NextLockTime]_vars

\* the handler of op has returned
LockTimeReturned(op) == pc = "returned" /\ pcOp = op

\* the top item of the stack the handler was run on decodes as a number of
\* at most 5 bytes
TopNum == makeScriptNum(Top(stack0), ScriptVerifyMinimalData \in flags, 5)
TopDecodes == stack0 # <<>> /\ TopNum.err = NoErr

\* a and b are on the same side of the threshold
SameSide(a, b, threshold) ==
    WideLess(a, threshold) <=> WideLess(b, threshold)

\* a <= b
WideLeq(a, b) == a = b \/ WideLess(a, b)

\* C21: with the check-locktime-verify flag set, OpCheckLockTimeVerify
\* succeeds exactly when the stack is not empty, its top item decodes as a
\* number L of at most 5 bytes, L is not negative, L and the lock time of
\* the transaction are on the same side of LockTimeThreshold, L is at most
\* the lock time of the transaction, and the sequence of the input is not
\* MaxTxInSequenceNum.  A negative L fails with ErrNegativeLockTime; a type
\* mismatch, an L above the lock time of the transaction and a final
\* sequence fail with ErrUnsatisfiedLockTime.
C21_CheckLockTimeVerify ==
    (LockTimeReturned("OpCheckLockTimeVerify")
        /\ ScriptVerifyCheckLockTimeVerify \in flags)
    => /\ err = NoErr
            <=> /\ TopDecodes
                /\ ~Negative(TopNum)
                /\ SameSide(TopNum.mag, tx.LockTime,
                            Wide(0, LockTimeThreshold))
                /\ WideLeq(TopNum.mag, tx.LockTime)
                /\ tx.Sequence # MaxTxInSequenceNum
       /\ (TopDecodes /\ Negative(TopNum)) => err = ErrNegativeLockTime
       /\ (/\ TopDecodes
           /\ ~Negative(TopNum)
           /\ \/ ~SameSide(TopNum.mag, tx.LockTime,
                           Wide(0, LockTimeThreshold))
              \/ ~WideLeq(TopNum.mag, tx.LockTime)
              \/ tx.Sequence = MaxTxInSequenceNum)
          => err = ErrUnsatisfiedLockTime

\* a time on the stack below the time of the transaction has succeeded for
\* an input that is not final
C21_Witness ==
    /\ LockTimeReturned("OpCheckLockTimeVerify")
    /\ ScriptVerifyCheckLockTimeVerify \in flags
    /\ stack0 = <<Bottom, ScriptNum(LockTimeThreshold)>>
    /\ tx.LockTime = Wide(0, LockTimeThreshold + 1)
    /\ tx.Sequence = Wide(0, 5)
    /\ err = NoErr

\* the time flag and the magnitude of a relative lock time
IsSeconds(w) == (w.lo \div 4194304) % 2 = 1
Magnitude(w) == w.lo % 65536

C23_LockTimePeeks ==
    (/\ \/ LockTimeReturned("OpCheckLockTimeVerify")
        \/ LockTimeReturned("OpCheckSequenceVerify")
     /\ err = NoErr)
    => /\ dstack = stack0
       /\ astack = <<Bottom>>
       /\ condStack = condStack0

\* OpCheckSequenceVerify, enabled, has accepted the lock time on top of the
\* stack
C23_Witness ==
    /\ LockTimeReturned("OpCheckSequenceVerify")
    /\ ScriptVerifyCheckSequenceVerify \in flags
    /\ stack0 = <<Bottom, ScriptNum(5)>>
    /\ dstack = <<Bottom, ScriptNum(5)>>
    /\ err = NoErr

UpgradableNops ==
    {"OpNoOp1", "OpNoOp4", "OpNoOp5", "OpNoOp6", "OpNoOp7", "OpNoOp8",
     "OpNoOp9", "OpNoOp10"}

\* the handler that has returned is that of an upgradable NOP: one of
\* OpNoOp1, OpNoOp4 .. OpNoOp10, or a lock time opcode whose flag is off
UpgradableNopReturned ==
    /\ pc = "returned"
    /\ \/ pcOp \in UpgradableNops
       \/ pcOp = "OpCheckLockTimeVerify"
            /\ ScriptVerifyCheckLockTimeVerify \notin flags
       \/ pcOp = "OpCheckSequenceVerify"
            /\ ScriptVerifyCheckSequenceVerify \notin flags

\* C24: an upgradable NOP (OpNoOp1, OpNoOp4 .. OpNoOp10, and the two lock
\* time opcodes when their own flag is off) succeeds without changing any
\* stack, an empty data stack included, unless
\* ScriptDiscourageUpgradableNops is set, and then it fails with
\* ErrDiscourageUpgradableNOPs; OpNoOp succeeds under every set of flags.
C24_UpgradableNops ==
    /\ UpgradableNopReturned
        => /\ err = IF ScriptDiscourageUpgradableNops \in flags
                    THEN ErrDiscourageUpgradableNOPs
                    ELSE NoErr
           /\ dstack = stack0
           /\ astack = <<Bottom>>
           /\ condStack = condStack0
    /\ LockTimeReturned("OpNoOp")
        => /\ err = NoErr
           /\ dstack = stack0
           /\ astack = <<Bottom>>
           /\ condStack = condStack0

\* OpCheckLockTimeVerify with its flag off has succeeded on an empty stack
C24_Witness ==
    /\ LockTimeReturned("OpCheckLockTimeVerify")
    /\ ScriptVerifyCheckLockTimeVerify \notin flags
    /\ ScriptDiscourageUpgradableNops \notin flags
    /\ stack0 = <<>>
    /\ err = NoErr

(***************************************************************************)
(* OpCheckSigVerify and OpCheckMultiSigVerify.                             *)
(***************************************************************************)
opcodeCheckSigVerify(st, fl, wit, cache) ==
    LET r == opcodeCheckSig(st, fl, wit, cache)
        v == abstractVerify(r.dstack, ErrCheckSigVerify)
    IN  IF r.err = NoErr
        THEN [r EXCEPT !.dstack = v.dstack, !.err = v.err]
        ELSE r

(***************************************************************************)
(* One of the five handlers runs once: on a few items, on the operands of  *)
(* OpCheckSig, or, after opcodeCheckMultiSig has run step by step, on its  *)
(* result.                                                                 *)
(***************************************************************************)
\* byte strings and numbers, among them both encodings of false, a number
\* of 5 bytes and an encoding of 1 that is not minimal
VerifyItems ==
    {Empty, ZeroByte, ScriptNum(1), ScriptNum(2),
     NumItem(5, TRUE, FALSE, Wide(1, 5)),
     NumItem(2, FALSE, FALSE, Wide(0, 1))}

\* the largest number of items of a stack of numbers
MaxItems == 3

ItemStacks == SeqsUpTo(VerifyItems, MaxItems)

InitVerify ==
    /\ \/ /\ dstack \in ItemStacks
          /\ flags \in SUBSET {ScriptVerifyMinimalData}
          /\ pc = "ready"
          /\ pcOp = "none"
       \/ /\ dstack \in CheckSigStacks
          /\ flags \in SUBSET SigFlags
          /\ pc = "ready"
          /\ pcOp = "none"
       \/ /\ dstack \in MultiSigStacks
          /\ flags \in SUBSET {ScriptVerifyNullFail, ScriptStrictMultiSig}
          /\ pc = "OpCheckMultiSig"
          /\ pcOp = "OpCheckMultiSigVerify"
    /\ astack = <<>>
    /\ condStack = <<>>
    /\ numOps = 1
    /\ witness = FALSE
    /\ tx = NoTx
    /\ sigCache = NoCache
    /\ err = NoErr
    /\ steps = 0
    /\ ms = NoMS
    /\ calls = <<>>
    /\ stack0 = dstack
    /\ condStack0 = condStack
    /\ cache0 = sigCache
    /\ numOps0 = numOps
    /\ script = <<>>
    /\ dec = NoDec
    /\ ld = NoLoader
    /\ evals = <<>>

\* the handler of op has left the stack d and the error e, after the calls
\* cl
Verified(op, d, e, cl) ==
    /\ dstack' = d
    /\ err' = e
    /\ calls' = cl
    /\ pc' = "returned"
    /\ pcOp' = op
    /\ UNCHANGED <<condStack, numOps, flags, witness, sigCache, steps, ms,
                   stack0, condStack0, cache0, numOps0, script, evals,
                   astack, tx, dec, ld>>

VerifyOp ==
    /\ pc = "ready"
    /\ LET r == opcodeVerify(dstack)
       IN  Verified("OpVerify", r.dstack, r.err, <<>>)

EqualVerify ==
    /\ pc = "ready"
    /\ LET r == opcodeEqualVerify(dstack)
       IN  Verified("OpEqualVerify", r.dstack, r.err, <<>>)

NumEqualVerify ==
    /\ pc = "ready"
    /\ dstack \in ItemStacks
    /\ LET r == opcodeNumEqualVerify(dstack, flags)
       IN  Verified("OpNumEqualVerify", r.dstack, r.err, <<>>)

CheckSigVerify ==
    /\ pc = "ready"
    /\ dstack \in CheckSigStacks
    /\ LET r == opcodeCheckSigVerify(dstack, flags, witness, sigCache)
       IN  Verified("OpCheckSigVerify", r.dstack, r.err, r.calls)

\* opcodeCheckMultiSigVerify: opcodeCheckMultiSig has returned, and the
\* verify follows when it returned no error
CheckMultiSigVerify ==
    /\ pc = "done"
    /\ pcOp = "OpCheckMultiSigVerify"
    /\ LET v == abstractVerify(dstack, ErrCheckMultiSigVerify)
       IN  IF err = NoErr
           THEN Verified("OpCheckMultiSigVerify", v.dstack, v.err, calls)
           ELSE Verified("OpCheckMultiSigVerify", dstack, err, calls)

NextVerify ==
    \/ VerifyOp
    \/ EqualVerify
    \/ NumEqualVerify
    \/ CheckSigVerify
    \/ CheckMultiSigOperands
    \/ CheckMultiSigScan
    \/ CheckMultiSigResult
    \/ CheckMultiSigVerify

SpecVerify == InitVerify /\ [][NextVerify]_vars

\* what the base opcode of op leaves of the stack the handler was run on
BaseOf(op) ==
    CASE op = "OpVerify" -> Stacked(stack0, NoErr)
      [] op = "OpEqualVerify" -> opcodeEqual(stack0)
      [] op = "OpNumEqualVerify" -> opcodeNumEqual(stack0, flags)
      [] op = "OpCheckSigVerify" ->
            opcodeCheckSig(stack0, flags, witness, cache0)
      [] op = "OpCheckMultiSigVerify" ->
            opcodeCheckMultiSig(stack0, numOps0, flags, witness, cache0)

\* the error kind of the verify of op
VerifyKind(op) ==
    CASE op = "OpVerify" -> ErrVerify
      [] op = "OpEqualVerify" -> ErrEqualVerify
      [] op = "OpNumEqualVerify" -> ErrNumEqualVerify
      [] op = "OpCheckSigVerify" -> ErrCheckSigVerify
      [] op = "OpCheckMultiSigVerify" -> ErrCheckMultiSigVerify

VerifyOpcodes ==
    {"OpVerify", "OpEqualVerify", "OpNumEqualVerify", "OpCheckSigVerify",
     "OpCheckMultiSigVerify"}

\* C25: OpEqualVerify, OpNumEqualVerify, OpCheckSigVerify and
\* OpCheckMultiSigVerify behave as their base opcode followed by a verify:
\* an error of the base opcode is returned with the stack as the base
\* opcode left it; a false pushed by the base opcode fails with the error
\* kind of the opcode (ErrVerify for OpVerify, which has no base opcode);
\* a true pushed by the base opcode is popped, so that no result item is
\* left on the stack.
C25_VerifyVariants ==
    \A op \in VerifyOpcodes :
        (pc = "returned" /\ pcOp = op)
        => LET base == BaseOf(op)
           IN  IF base.err # NoErr
               THEN err = base.err /\ dstack = base.dstack
               ELSE IF base.dstack = <<>>
               THEN err = ErrInvalidStackOperation
               ELSE IF Top(base.dstack) \in {Empty, ZeroByte}
               THEN err = VerifyKind(op)
               ELSE err = NoErr /\ dstack = Pop(base.dstack)

\* OpCheckSigVerify has returned without an error for a signature of the
\* key, and only the item below the operands is left
C25_Witness ==
    /\ pc = "returned"
    /\ pcOp = "OpCheckSigVerify"
    /\ stack0 = <<Bottom, SigFor(1), Key(1)>>
    /\ err = NoErr
    /\ dstack = <<Bottom>>

(***************************************************************************)
(* The engine steps through a script of pushes and of opcodes that pop     *)
(* their operands off the data stack.                                      *)
(***************************************************************************)
StackOpcodes ==
    {"OpZero", "Op1", "Op2", "OpData1", "OpNoOp", "OpVerify", "OpEqual",
     "OpEqualVerify", "OpAdd", "OpNumEqual"}

InitStack ==
    /\ dstack = <<>>
    /\ condStack = <<>>
    /\ numOps = 0
    /\ flags \in SUBSET {ScriptVerifyMinimalData}
    /\ witness = FALSE
    /\ sigCache = NoCache
    /\ err = NoErr
    /\ pc = "running"
    /\ pcOp = "none"
    /\ steps = 0
    /\ ms = NoMS
    /\ calls = <<>>
    /\ stack0 = <<>>
    /\ condStack0 = <<>>
    /\ cache0 = sigCache
    /\ numOps0 = numOps
    /\ script = <<>>
    /\ astack = <<>>
    /\ tx = NoTx
    /\ dec = NoDec
    /\ ld = NoLoader
    /\ evals = <<>>

StackStep ==
    /\ pc = "running"
    /\ steps < MaxScriptLen
    /\ \E op \in StackOpcodes : Executed(op)
    /\ UNCHANGED script

NextStack == StackStep

SpecStack == InitStack /\ [][NextStack]_vars

\* the number of items an opcode pops and the number it pushes, as its
\* stack transformation documents them
Pops(op) ==
    CASE op \in {"OpEqual", "OpEqualVerify", "OpAdd", "OpNumEqual"} -> 2
      [] op = "OpVerify" -> 1
      [] OTHER -> 0
Pushes(op) ==
    CASE op \in {"OpZero", "Op1", "Op2", "OpData1", "OpEqual", "OpAdd",
                 "OpNumEqual"} -> 1
      [] OTHER -> 0

\* C26: no handler applies a part of its stack effect and continues: a
\* step is only taken by an engine that has not failed; when the handler
\* returns no error all its pops and pushes have been applied (the stack
\* held its operands, the items below them are untouched, and the result
\* is on top); when it returns an error, also after it has popped some of
\* its operands, the engine is in the failed state, which no step leaves.
C26_NoPartialEffect ==
    [][/\ pc = "running"
       /\ err = NoErr
       /\ err' = NoErr
            => /\ pc' = "running"
               /\ Len(dstack) >= Pops(pcOp')
               /\ Len(dstack') = Len(dstack) - Pops(pcOp') + Pushes(pcOp')
               /\ SubSeq(dstack', 1, Len(dstack) - Pops(pcOp'))
                    = SubSeq(dstack, 1, Len(dstack) - Pops(pcOp'))
       /\ err' # NoErr => pc' = "failed"]_vars

\* OpAdd has popped the only item of the stack and failed for want of the
\* second operand
C26_Witness ==
    /\ pc = "failed"
    /\ pcOp = "OpAdd"
    /\ stack0 = <<ScriptNum(1)>>
    /\ dstack = <<>>
    /\ err = ErrInvalidStackOperation

(***************************************************************************)
(* The undefined opcodes, under Spec.                                      *)
(***************************************************************************)
\* the error kind the handlers never return
ErrInvalidOpcode == "ErrInvalidOpcode"

\* C27: an undefined opcode (OpUnknown186 .. OpUnknown249, OpSmallInteger,
\* OpPubKeys, OpUnknown252, OpPubKeyHash, OpPubKey, OpInvalidOpCode) met on
\* an executing branch fails with the invalid-opcode error kind, which is
\* not the kind OpReserved, OpVer, OpReserved1 and OpReserved2 fail with.
C27_InvalidOpcodeKind ==
    (/\ steps > 0
     /\ pcOp \in InvalidOpcodes
     /\ isBranchExecuting(condStack0))
    => /\ err = ErrInvalidOpcode
       /\ err # ErrReservedOpcode

(***************************************************************************)
(* Scripts as bytes: the decoder, parsedOpcode.bytes and                   *)
(* parsedOpcode.checkMinimalDataPush.                                      *)
(*                                                                         *)
(* A byte string is the record of its length and of its first bytes: the   *)
(* bytes after head are zero bytes, so that a payload of 65536 bytes is a  *)
(* value of the model.  Bytes(s) is the string that is all in its head.    *)
(***************************************************************************)
ErrInternal == "ErrInternal"
ErrMalformedPush == "ErrMalformedPush"
ErrElementTooBig == "ErrElementTooBig"

\* the values of the opcodes
OpZero == 0
OpData1 == 1
OpData75 == 75
OpPushData1 == 76
OpPushData2 == 77
OpPushData4 == 78
Op1Negate == 79
Op1 == 81
Op16 == 96
OpNoOp == 97

\* the largest number of bytes of a stack item
MaxScriptElementSize == 520

Bytes(s) == [len |-> Len(s), head |-> s]
Padded(s, n) == [len |-> n, head |-> s]

\* b[i], from 1
ByteAt(b, i) == IF i <= Len(b.head) THEN b.head[i] ELSE 0

\* b[from : from+n], from 1
Slice(b, from, n) ==
    [len |-> n,
     head |-> IF from + n - 1 <= Len(b.head)
              THEN SubSeq(b.head, from, from + n - 1)
              ELSE SubSeq(b.head, from, Len(b.head))]

\* append(a, b...) for a string a that is all in its head
Concat(a, b) == [len |-> a.len + b.len, head |-> a.head \o b.head]

\* opcodeArray[v].length: 1 for an opcode without data, the length of the
\* opcode and its data for OpData1 .. OpData75, and minus the number of
\* bytes of the length prefix for OpPushData1, OpPushData2, OpPushData4
OpcodeLength(v) ==
    IF v >= OpData1 /\ v <= OpData75 THEN v + 1
    ELSE IF v = OpPushData1 THEN -1
    ELSE IF v = OpPushData2 THEN -2
    ELSE IF v = OpPushData4 THEN -4
    ELSE 1

parsedOpcode(v, data) == [opcode |-> v, data |-> data]

Parsed(e, pops) == [err |-> e, pops |-> pops]

\* the little-endian number of the n bytes of b from offset off
LittleEndian(b, off, n) ==
    ByteAt(b, off)
        + (IF n >= 2 THEN 256 * ByteAt(b, off + 1) ELSE 0)
        + (IF n >= 4
           THEN 65536 * ByteAt(b, off + 2)
                    + 16777216 * ByteAt(b, off + 3)
           ELSE 0)

\* parseScript from the byte i on, after the opcodes pops
RECURSIVE parseFrom(_, _, _)
parseFrom(scr, i, pops) ==
    IF i > scr.len THEN Parsed(NoErr, pops)
    ELSE
    LET op == ByteAt(scr, i)
        length == OpcodeLength(op)
        left == scr.len - i + 1
    IN  IF length = 1
        THEN parseFrom(scr, i + 1,
                       Append(pops, parsedOpcode(op, Bytes(<<>>))))
        ELSE IF length > 1
        THEN IF left < length THEN Parsed(ErrMalformedPush, pops)
             ELSE parseFrom(scr, i + length,
                            Append(pops,
                                   parsedOpcode(op,
                                       Slice(scr, i + 1, length - 1))))
        ELSE
        LET l == LittleEndian(scr, i + 1, -length)
            off == i + 1 - length
        IN  IF left - 1 < -length THEN Parsed(ErrMalformedPush, pops)
            ELSE IF l > scr.len - off + 1
            THEN Parsed(ErrMalformedPush, pops)
            ELSE parseFrom(scr, off + l,
                           Append(pops,
                                  parsedOpcode(op, Slice(scr, off, l))))

parseScript(scr) == parseFrom(scr, 1, <<>>)

\* the small integers have no opcodes of their own
checkMinimalDataPushNoSmallInt(pop) ==
    LET dataLen == pop.data.len
        opcode == pop.opcode
    IN  IF dataLen = 0 /\ opcode # OpZero THEN ErrMinimalData
        ELSE IF dataLen <= 75
        THEN IF opcode # dataLen THEN ErrMinimalData ELSE NoErr
        ELSE IF dataLen <= 255
        THEN IF opcode # OpPushData1 THEN ErrMinimalData ELSE NoErr
        ELSE IF dataLen <= 65535
        THEN IF opcode # OpPushData2 THEN ErrMinimalData ELSE NoErr
        ELSE NoErr

\* parsedOpcode.checkMinimalDataPush
checkMinimalDataPush(pop) ==
    LET data == pop.data
        dataLen == pop.data.len
        opcode == pop.opcode
    IN  IF dataLen = 0 /\ opcode # OpZero THEN ErrMinimalData
        ELSE IF dataLen = 1 /\ ByteAt(data, 1) >= 1 /\ ByteAt(data, 1) <= 16
        THEN IF opcode # Op1 + ByteAt(data, 1) - 1
             THEN ErrMinimalData
             ELSE NoErr
        ELSE IF dataLen = 1 /\ ByteAt(data, 1) = 129
        THEN IF opcode # Op1Negate THEN ErrMinimalData ELSE NoErr
        ELSE IF dataLen <= 75
        THEN IF opcode # dataLen THEN ErrMinimalData ELSE NoErr
        ELSE IF dataLen <= 255
        THEN IF opcode # OpPushData1 THEN ErrMinimalData ELSE NoErr
        ELSE IF dataLen <= 65535
        THEN IF opcode # OpPushData2 THEN ErrMinimalData ELSE NoErr
        ELSE NoErr

Unparsed(e, out) == [err |-> e, out |-> out]

\* the bytes of the length l of the data, as bytes() appends them
LengthPrefix(length, l) ==
    IF length = -1 THEN <<l % 256>>
    ELSE IF length = -2 THEN <<l % 256, (l \div 256) % 256>>
    ELSE IF length = -4
    THEN <<l % 256, (l \div 256) % 256, (l \div 65536) % 256,
           (l \div 16777216) % 256>>
    ELSE <<>>

\* the length prefix is left out
bytesNoPrefix(pop) ==
    Unparsed(NoErr, Concat(Bytes(<<pop.opcode>>), pop.data))

\* parsedOpcode.bytes
bytes(pop) ==
    LET length == OpcodeLength(pop.opcode)
        retbytes == Bytes(<<pop.opcode>> \o LengthPrefix(length, pop.data.len))
        nbytes ==
            IF length < 0
            THEN LittleEndian(retbytes, 2, -length) + retbytes.len
            ELSE length
        out == Concat(retbytes, pop.data)
    IN  IF length = 1
        THEN IF pop.data.len # 0
             THEN Unparsed(ErrInternal, Bytes(<<>>))
             ELSE Unparsed(NoErr, retbytes)
        ELSE IF out.len # nbytes THEN Unparsed(ErrInternal, Bytes(<<>>))
        ELSE Unparsed(NoErr, out)

\* unparseScript: the bytes of the opcodes one after the other
RECURSIVE unparseFrom(_, _, _)
unparseFrom(pops, i, out) ==
    IF i > Len(pops) THEN Unparsed(NoErr, out)
    ELSE LET b == bytes(pops[i])
         IN  IF b.err # NoErr THEN Unparsed(b.err, out)
             ELSE unparseFrom(pops, i + 1, Concat(out, b.out))

unparseScript(pops) == unparseFrom(pops, 1, Bytes(<<>>))

\* scriptNum.Bytes of a number from -127 to 127
scriptNumBytes(n) ==
    IF n = 0 THEN Bytes(<<>>)
    ELSE IF n > 0 THEN Bytes(<<n>>)
    ELSE Bytes(<<128 - n>>)

\* asBool of a byte string: some byte is not zero, and it is not the sign
\* bit of a negative zero
asBoolBytes(b) ==
    \E i \in 1..Len(b.head) :
        b.head[i] # 0 /\ ~(i = b.len /\ b.head[i] = 128)

\* op.opcode.value - Op1: one less than the number of the opcode
SmallIntOffByOne(pop) == pop.opcode - Op1

\* op.opcode.value - (Op1 - 1)
SmallInt(pop) == pop.opcode - (Op1 - 1)

\* the opcodes without data whose handlers the byte engine has
ExecOpcodes == (OpZero .. Op1Negate) \cup (Op1 .. OpNoOp)

\* opfunc on byte strings: opcodeFalse, opcodePushData, opcode1Negate,
\* opcodeN and opcodeNop
opfuncBytes(pop, st) ==
    IF pop.opcode = OpZero THEN Append(st, Bytes(<<>>))
    ELSE IF pop.opcode <= OpPushData4 THEN Append(st, pop.data)
    ELSE IF pop.opcode = Op1Negate THEN Append(st, scriptNumBytes(-1))
    ELSE IF pop.opcode >= Op1 /\ pop.opcode <= Op16
    THEN Append(st, scriptNumBytes(SmallInt(pop)))
    ELSE st

\* the minimal push check is made of every opcode
MinimalDataCheckedAlways(pop, fl) == hasFlag(fl, ScriptVerifyMinimalData)

\* Engine.executeOpcode: the minimal push check is made of the push
\* opcodes when the flag is set
MinimalDataChecked(pop, fl) ==
    /\ hasFlag(fl, ScriptVerifyMinimalData)
    /\ pop.opcode >= 0
    /\ pop.opcode <= OpPushData4

\* Engine.executeOpcode on an executing branch, for the opcodes of
\* ExecOpcodes
executeOpcodeBytes(pop, st, fl) ==
    IF pop.data.len > MaxScriptElementSize THEN Stacked(st, ErrElementTooBig)
    ELSE IF MinimalDataChecked(pop, fl)
              /\ checkMinimalDataPush(pop) # NoErr
    THEN Stacked(st, checkMinimalDataPush(pop))
    ELSE Stacked(opfuncBytes(pop, st), NoErr)

\* Engine.Execute from the opcode i on
RECURSIVE executeFrom(_, _, _, _)
executeFrom(pops, i, st, fl) ==
    IF i > Len(pops) THEN Stacked(st, NoErr)
    ELSE LET r == executeOpcodeBytes(pops[i], st, fl)
         IN  IF r.err # NoErr THEN r
             ELSE executeFrom(pops, i + 1, r.dstack, fl)

(***************************************************************************)
(* A script is decoded; its opcodes are then encoded again, or checked     *)
(* for minimal pushes, or executed.                                        *)
(***************************************************************************)
\* the largest number of chunks of a script
MaxChunks == 2

\* encodings of opcodes, minimal and not, and truncated ones
DecodeChunks ==
    {<<0>>, <<81>>, <<87>>, <<96>>, <<79>>, <<97>>,
     <<1, 0>>, <<1, 1>>, <<1, 7>>, <<1, 16>>, <<1, 17>>, <<1, 129>>,
     <<2, 1, 2>>, <<76, 0>>, <<76, 1, 7>>, <<76, 2, 1, 2>>,
     <<77, 0, 0>>, <<77, 1, 0, 7>>, <<78, 0, 0, 0, 0>>,
     <<78, 1, 0, 0, 0, 7>>,
     <<2, 1>>, <<76>>, <<76, 2, 7>>, <<77, 1>>, <<77, 2, 0, 7>>,
     <<78, 1, 0, 0>>}

RECURSIVE Flatten(_)
Flatten(ss) == IF ss = <<>> THEN <<>> ELSE Head(ss) \o Flatten(Tail(ss))

ShortScripts ==
    {Bytes(Flatten(ss)) : ss \in SeqsUpTo(DecodeChunks, MaxChunks)}

\* one push of a long payload, 9 followed by zero bytes
LongScripts ==
    {Padded(<<75, 9>>, 76), Padded(<<76, 75, 9>>, 77),
     Padded(<<76, 76, 9>>, 78), Padded(<<76, 255, 9>>, 257),
     Padded(<<77, 76, 0, 9>>, 79), Padded(<<77, 255, 0, 9>>, 258),
     Padded(<<77, 0, 1, 9>>, 259), Padded(<<77, 255, 255, 9>>, 65538),
     Padded(<<78, 0, 1, 0, 0, 9>>, 261),
     Padded(<<78, 255, 255, 0, 0, 9>>, 65540),
     Padded(<<78, 0, 0, 1, 0, 9>>, 65541),
     Padded(<<76, 255, 9>>, 256), Padded(<<77, 0, 1, 9>>, 258)}

Raw(scr) ==
    [state |-> "raw", script |-> scr, pops |-> <<>>, err |-> NoErr,
     out |-> Bytes(<<>>), minimal |-> <<>>]

InitDecode ==
    /\ dec \in {Raw(scr) : scr \in ShortScripts \cup LongScripts}
    /\ ld = NoLoader
    /\ flags \in SUBSET {ScriptVerifyMinimalData}
    /\ dstack = <<>>
    /\ astack = <<>>
    /\ condStack = <<>>
    /\ numOps = 0
    /\ witness = FALSE
    /\ tx = NoTx
    /\ sigCache = NoCache
    /\ err = NoErr
    /\ pc = "ready"
    /\ pcOp = "none"
    /\ steps = 0
    /\ ms = NoMS
    /\ calls = <<>>
    /\ stack0 = dstack
    /\ condStack0 = condStack
    /\ cache0 = sigCache
    /\ numOps0 = numOps
    /\ script = <<>>
    /\ evals = <<>>

ParseScript ==
    /\ dec.state = "raw"
    /\ LET r == parseScript(dec.script)
       IN  dec' = [dec EXCEPT
                     !.state = IF r.err = NoErr THEN "parsed"
                               ELSE "malformed",
                     !.pops = r.pops,
                     !.err = r.err]
    /\ UNCHANGED <<dstack, condStack, numOps, flags, witness, sigCache, err,
                   pc, pcOp, steps, ms, calls, stack0, condStack0, cache0,
                   numOps0, script, evals, astack, tx, ld>>

UnparseScript ==
    /\ dec.state = "parsed"
    /\ LET r == unparseScript(dec.pops)
       IN  dec' = [dec EXCEPT !.state = "unparsed", !.out = r.out,
                              !.err = r.err]
    /\ UNCHANGED <<dstack, condStack, numOps, flags, witness, sigCache, err,
                   pc, pcOp, steps, ms, calls, stack0, condStack0, cache0,
                   numOps0, script, evals, astack, tx, ld>>

CheckMinimalDataPush ==
    /\ dec.state = "parsed"
    /\ dec' = [dec EXCEPT
                 !.state = "checked",
                 !.minimal = [i \in 1..Len(dec.pops) |->
                                 checkMinimalDataPush(dec.pops[i])]]
    /\ UNCHANGED <<dstack, condStack, numOps, flags, witness, sigCache, err,
                   pc, pcOp, steps, ms, calls, stack0, condStack0, cache0,
                   numOps0, script, evals, astack, tx, ld>>

Execute ==
    /\ dec.state = "parsed"
    /\ \A i \in 1..Len(dec.pops) : dec.pops[i].opcode \in ExecOpcodes
    /\ LET r == executeFrom(dec.pops, 1, dstack, flags)
       IN  /\ dstack' = r.dstack
           /\ err' = r.err
           /\ pc' = IF r.err = NoErr THEN "done" ELSE "failed"
    /\ dec' = [dec EXCEPT !.state = "executed"]
    /\ UNCHANGED <<condStack, numOps, flags, witness, sigCache, pcOp, steps,
                   ms, calls, stack0, condStack0, cache0, numOps0, script,
                   evals, astack, tx, ld>>

NextDecode == ParseScript \/ UnparseScript \/ CheckMinimalDataPush \/ Execute

SpecDecode == InitDecode /\ [][NextDecode]_vars

\* the opcode of the shortest encoding of a push of data
ShortestPush(data) ==
    IF data.len = 0 THEN OpZero
    ELSE IF data.len = 1 /\ ByteAt(data, 1) \in 1..16
    THEN Op1 + ByteAt(data, 1) - 1
    ELSE IF data.len = 1 /\ ByteAt(data, 1) = 129 THEN Op1Negate
    ELSE IF data.len <= 75 THEN OpData1 + data.len - 1
    ELSE IF data.len <= 255 THEN OpPushData1
    ELSE IF data.len <= 65535 THEN OpPushData2
    ELSE OpPushData4

\* the opcodes that push data
IsDataPush(pop) == pop.opcode >= OpZero /\ pop.opcode <= OpPushData4

\* C28: checkMinimalDataPush accepts a data push opcode exactly when it is
\* the shortest encoding of its payload: the empty payload with OpZero
\* only, one byte of value 1 to 16 with the matching Op1 .. Op16 only, the
\* byte 0x81 with Op1Negate only, another payload of L <= 75 bytes with
\* OpData<L> only, 76 to 255 bytes with OpPushData1 only, 256 to 65535
\* bytes with OpPushData2 only (and more bytes with OpPushData4, the only
\* opcode that holds them); everything else is ErrMinimalData.
C28_MinimalDataPush ==
    dec.state = "checked"
    => \A i \in 1..Len(dec.pops) :
          IsDataPush(dec.pops[i])
          => dec.minimal[i] =
                IF dec.pops[i].opcode = ShortestPush(dec.pops[i].data)
                THEN NoErr
                ELSE ErrMinimalData

\* 256 bytes pushed with OpPushData2 have been accepted
C28_Witness ==
    /\ dec.state = "checked"
    /\ dec.script = Padded(<<77, 0, 1, 9>>, 259)
    /\ dec.minimal = <<NoErr>>

\* C29: a script that is one small integer opcode (Op1 .. Op16) evaluates
\* to true with and without ScriptVerifyMinimalData; the same value pushed
\* as OpData1 <n> fails with ErrMinimalData when the flag is set, and
\* leaves the same stack item as the small integer opcode when it is not.
C29_SmallIntPush ==
    dec.state = "executed"
    => \A n \in 1..16 :
          /\ dec.script = Bytes(<<Op1 + n - 1>>)
                => /\ err = NoErr
                   /\ dstack = <<Bytes(<<n>>)>>
                   /\ asBoolBytes(Top(dstack))
          /\ dec.script = Bytes(<<OpData1, n>>)
                => IF ScriptVerifyMinimalData \in flags
                   THEN err = ErrMinimalData
                   ELSE err = NoErr /\ dstack = <<Bytes(<<n>>)>>

\* the script OpData1 7 has been refused under the flag
C29_Witness ==
    /\ dec.state = "executed"
    /\ dec.script = Bytes(<<1, 7>>)
    /\ ScriptVerifyMinimalData \in flags
    /\ err = ErrMinimalData

\* the number of bytes of the script the opcode was decoded from
Consumed(pop) ==
    1 + pop.data.len
      + (CASE pop.opcode = OpPushData1 -> 1
           [] pop.opcode = OpPushData2 -> 2
           [] pop.opcode = OpPushData4 -> 4
           [] OTHER -> 0)

\* C30: for every opcode decoded from a well formed script, bytes returns
\* no error and as many bytes as were consumed for it (the opcode, the
\* little-endian length of 1, 2 or 4 bytes of OpPushData1, 2, 4, the
\* data), and the bytes of all the opcodes one after the other are the
\* script.
C30_BytesRoundTrip ==
    dec.state = "unparsed"
    => /\ dec.err = NoErr
       /\ dec.out = dec.script
       /\ \A i \in 1..Len(dec.pops) :
             /\ bytes(dec.pops[i]).err = NoErr
             /\ bytes(dec.pops[i]).out.len = Consumed(dec.pops[i])

\* a script of an OpPushData2 and an OpPushData4 has been decoded and
\* encoded again
C30_Witness ==
    /\ dec.state = "unparsed"
    /\ dec.script = Bytes(<<77, 1, 0, 7, 78, 1, 0, 0, 0, 7>>)
    /\ Len(dec.pops) = 2
    /\ dec.out = dec.script

(***************************************************************************)
(* The operation counter across OpCheckMultiSig.                           *)
(***************************************************************************)
\* C31: within one evaluation the operation counter never decreases;
\* OpCheckMultiSig adds its public key count to the counter once the count
\* is known to be in range and before any public key is popped, and when
\* the counter then exceeds MaxOpsPerScript it fails with
\* ErrTooManyOperations with only the count popped and no result pushed.
C31_OpCounter ==
    [][/\ numOps' >= numOps
       /\ (pc = "OpCheckMultiSig" /\ Len(dstack) >= 1) =>
            LET n == AsInt(Top(dstack))
                inRange == 0 <= n /\ n <= MaxPubKeysPerMultiSig
            IN  /\ ~inRange =>
                      /\ numOps' = numOps
                      /\ err' = ErrInvalidPubKeyCount
                /\ inRange => numOps' = numOps + n
                /\ (inRange /\ numOps + n > MaxOpsPerScript) =>
                      /\ err' = ErrTooManyOperations
                      /\ dstack' = Pop(dstack)
                      /\ pc' = "done"
                /\ (inRange /\ numOps + n <= MaxOpsPerScript) =>
                      err' # ErrTooManyOperations
       /\ pc # "OpCheckMultiSig" => numOps' = numOps]_vars

\* two public keys took the counter from 200 past the limit: the keys are
\* still on the stack and nothing was pushed
C31_Witness ==
    /\ MultiSigReturned
    /\ err = ErrTooManyOperations
    /\ numOps0 = MaxOpsPerScript - 1
    /\ numOps = MaxOpsPerScript + 1
    /\ NumKeys0 = 2
    /\ dstack = Pop(stack0)

(***************************************************************************)
(* Termination of OpCheckMultiSig.  The handler is straight-line code run  *)
(* by the one goroutine that executes the script: a step that can be taken *)
(* is taken, which is weak fairness of the handler's steps.                *)
(***************************************************************************)
\* the evaluations of InitCheckMultiSig without a signature cache, under no
\* flag and under every flag
InitCheckMultiSigFair ==
    /\ InitCheckMultiSig
    /\ flags \in {{}, MultiSigFlags}
    /\ sigCache = NoCache

SpecCheckMultiSigFair ==
    /\ InitCheckMultiSigFair
    /\ [][NextCheckMultiSig]_vars
    /\ WF_vars(NextCheckMultiSig)

\* the position in the handler, in program order
Position(p) ==
    CASE p = "OpCheckMultiSig" -> 0
      [] p = "scan" -> 1
      [] p = "done" -> 2
      [] OTHER -> 3

PubKeyChecks == {c \in 1..Len(calls) : calls[c].fn = "checkPubKeyEncoding"}

\* the signature and the public key an iteration is on
IterSig(it) == Sigs0[it.signatureIdx + 1]
IterKey(it) == Keys0[it.pubKeyIdx + 1]

\* the signature passes its hash type and encoding checks and parses
SigParses(sig) ==
    /\ sig # Empty
    /\ checkHashTypeEncoding(flags, sig) = NoErr
    /\ checkSignatureEncoding(flags, sig) = NoErr
    /\ ParseSigOk(flags, sig)

\* C36: in the scan of OpCheckMultiSig the hash type check, the encoding
\* check and the parse of the signature are called before the encoding
\* check of the public key it is tried against; the public key's encoding
\* check is not called when the signature is empty or did not parse; a
\* malformed public key ends the evaluation with an error exactly when the
\* strict encoding flag is set and the scan is on it with a signature that
\* parsed; no call is made for a public key the scan did not reach.
C36_SignatureBeforeKey ==
    /\ \A c \in PubKeyChecks :
          /\ calls[c].key <= Len(Iters)
          /\ LET it == Iters[calls[c].key]
                 s == it.signatureIdx + 1
             IN  /\ SigParses(IterSig(it))
                 /\ it.outcome \in {"error", "pubKeyParseError", "valid",
                                    "invalid"}
                 /\ \E h, e, p \in 1..(c - 1) :
                       /\ h < e /\ e < p
                       /\ calls[h] = Call("checkHashTypeEncoding", s, 0)
                       /\ calls[e] = Call("checkSignatureEncoding", s, 0)
                       /\ calls[p] = Call(ParserName(flags), s, 0)
    /\ \A i \in 1..Len(Iters) :
          /\ Iters[i].outcome \in {"emptySignature", "signatureParseError",
                                   "signatureSkipped", "exit"}
                => \A c \in 1..Len(calls) : calls[c].key # i
          /\ Iters[i].outcome # "exit" =>
                (/\ SigParses(IterSig(Iters[i]))
                 /\ checkPubKeyEncoding(flags, IterKey(Iters[i])) # NoErr)
                <=> (/\ Iters[i].outcome = "error"
                     /\ err = ErrPubKeyType
                     /\ hasFlag(flags, ScriptVerifyStrictEncoding)
                     /\ i = Len(Iters))
    /\ err = ErrPubKeyType => Len(Iters) > 0 /\ pc = "done"
    /\ \A c \in 1..Len(calls) : calls[c].key <= Len(Iters)

\* under strict encoding a signature that passed its encoding check and did
\* not parse was tried against a malformed public key, which was not
\* checked, and the evaluation completed
C36_Witness ==
    /\ MultiSigCompleted
    /\ hasFlag(flags, ScriptVerifyStrictEncoding)
    /\ Len(Iters) >= 1
    /\ Iters[1].outcome = "signatureParseError"
    /\ IterKey(Iters[1]) = KeyBad
    /\ PubKeyChecks = {}

(***************************************************************************)
(* The indices of the scan.                                                *)
(***************************************************************************)
\* the scan is at the head of its loop or has left it
Scanning == ms.state \in {"scan", "break", "error", "returned"}

\* C38: the scan of OpCheckMultiSig never indexes outside its slices: in
\* every iteration that reads signatures[signatureIdx] and
\* pubKeys[pubKeyIdx], 0 <= pubKeyIdx < n and 0 <= signatureIdx < m, and
\* throughout the scan pubKeyIdx + numPubKeys = n and
\* signatureIdx + numSignatures = m, for n public keys and m signatures.
C38_IndicesInRange ==
    /\ err # PanicIndexOutOfRange
    /\ Scanning =>
          /\ Len(ms.pubKeys) = NumKeys0
          /\ Len(ms.signatures) = NumSigs0
          /\ ms.pubKeyIdx + ms.numPubKeys = NumKeys0
          /\ ms.signatureIdx + ms.numSignatures = NumSigs0
    /\ \A i \in 1..Len(Iters) :
          /\ Iters[i].pubKeyIdx + Iters[i].numPubKeys = NumKeys0
          /\ Iters[i].signatureIdx + Iters[i].numSignatures = NumSigs0
          /\ Iters[i].outcome # "panic"
          /\ Iters[i].outcome # "exit" =>
                /\ 0 <= Iters[i].pubKeyIdx
                /\ Iters[i].pubKeyIdx < NumKeys0
                /\ 0 <= Iters[i].signatureIdx
                /\ Iters[i].signatureIdx < NumSigs0

\* the scan read the last public key and the last signature of two of each
C38_Witness ==
    /\ MultiSigCompleted
    /\ Len(Iters) >= 2
    /\ NumKeys0 = 2
    /\ NumSigs0 = 2
    /\ \E i \in 1..Len(Iters) :
          /\ Iters[i].outcome \in {"valid", "invalid"}
          /\ Iters[i].pubKeyIdx = 1
          /\ Iters[i].signatureIdx = 1

(***************************************************************************)
(* OpElse more than once between an OpIf and its OpEndIf.  The engine      *)
(* steps through a script of the pushes of 1 and 2 and of OpIf, OpElse and *)
(* OpEndIf.                                                                *)
(***************************************************************************)
\* the largest number of opcodes of a script with repeated OpElse
MaxElseLen == 8

ElseOpcodes == {"Op1", "Op2", "OpIf", "OpElse", "OpEndIf"}

ElseStep ==
    /\ pc = "running"
    /\ steps < MaxElseLen
    /\ \E op \in ElseOpcodes :
          /\ Executed(op)
          /\ script' = Append(script, op)

NextElse == ElseStep

SpecElse == InitBranch /\ [][NextElse]_vars

\* the script passed so far is <v> OpIf A OpElse B OpElse C OpEndIf with
\* the two OpElse at positions j and k, where v is a push and A, B and C
\* are sequences of pushes
DoubleElse(j, k) ==
    /\ Len(script) >= 5
    /\ j \in 3..(Len(script) - 2)
    /\ k \in (j + 1)..(Len(script) - 1)
    /\ script[1] \in PushOpcodes
    /\ script[2] = "OpIf"
    /\ script[j] = "OpElse"
    /\ script[k] = "OpElse"
    /\ script[Len(script)] = "OpEndIf"
    /\ IsPushes(SubSeq(script, 3, j - 1))
    /\ IsPushes(SubSeq(script, j + 1, k - 1))
    /\ IsPushes(SubSeq(script, k + 1, Len(script) - 1))

\* the marker OpElse leaves in the place of the marker c
Toggled(c) ==
    IF c = OpCondTrue THEN OpCondFalse
    ELSE IF c = OpCondFalse THEN OpCondTrue
    ELSE c

\* C39: OpElse may occur more than once between an OpIf and its OpEndIf:
\* every OpElse met with a condition stack that is not empty returns no
\* error, toggles the innermost marker when it is OpCondTrue or
\* OpCondFalse, leaves an OpCondSkip, the markers below, the length of the
\* condition stack and the data stack as they are; so after
\* <true> OpIf A OpElse B OpElse C OpEndIf the data stack holds what A and
\* C push and nothing of B.
C39_ElseToggles ==
    /\ [][(script' = Append(script, "OpElse") /\ Len(condStack) > 0) =>
            /\ err' = NoErr
            /\ Len(condStack') = Len(condStack)
            /\ \A i \in 1..(Len(condStack) - 1) :
                  condStack'[i] = condStack[i]
            /\ condStack'[Len(condStack)] = Toggled(Top(condStack))
            /\ dstack' = dstack]_vars
    /\ [](\A j, k \in 3..MaxElseLen + 1 :
            (DoubleElse(j, k) /\ asBool(PushedItem(script[1])))
            => /\ err = NoErr
               /\ condStack = <<>>
               /\ dstack =
                     PushedItems(SubSeq(script, 3, j - 1)
                                   \o SubSeq(script, k + 1, Len(script) - 1)))

\* 1 IF 1 ELSE 2 ELSE 1 ENDIF has left 1 1
C39_Witness ==
    /\ script = <<"Op1", "OpIf", "Op1", "OpElse", "Op2", "OpElse", "Op1",
                  "OpEndIf">>
    /\ dstack = <<ScriptNum(1), ScriptNum(1)>>
    /\ condStack = <<>>
    /\ err = NoErr

(***************************************************************************)
(* The wallet Loader of pkg/wallet/loader.go, called by several goroutines.*)
(* A goroutine is idle, waits at l.mu.Lock(), runs the body of the method  *)
(* it called with the mutex held, runs callbacks, or is inside a callback  *)
(* that waits at l.mu.Lock().  The wallet database is a file that exists   *)
(* or not, and the handles open on it; a wallet and its database handle    *)
(* carry the same number, 0 is nil.                                        *)
(***************************************************************************)
\* the number of calls the goroutines make on the Loader, together
MaxCalls == 4

Goroutines == {1, 2}

ErrLoaded == "ErrLoaded"
ErrNotLoaded == "ErrNotLoaded"
ErrAlreadyExists == "already exists"
ErrStat == "fileExists error"
ErrMkdir == "MkdirAll error"
ErrDbCreate == "walletdb.Create error"
ErrDbOpen == "walletdb.Open error"
ErrWalletCreate == "Create error"
ErrWalletOpen == "Open error"
ErrDbClose == "db.Close error"

LoadOps == {"CreateNewWallet", "OpenExistingWallet"}
LoaderOps == LoadOps \cup {"UnloadWallet", "LoadedWallet", "RunAfterLoad"}

\* a function given to RunAfterLoad: locks says that it calls LoadedWallet
\* of the same Loader
Callback(id, locks) == [id |-> id, locks |-> locks]
NoFn == Callback(0, FALSE)

\* what a call returned: the wallet and the error or flag, with the database
\* handle the call had opened and the function it was given
Ret(op, e, w, ok, db, fn) ==
    [op |-> op, err |-> e, w |-> w, ok |-> ok, db |-> db, fn |-> fn]
NoRet == Ret("none", NoErr, 0, FALSE, 0, 0)

\* a goroutine that is in no call
Idle ==
    [pc |-> "idle", op |-> "none", fn |-> NoFn, w |-> 0, db |-> 0, i |-> 0,
     ret |-> NoRet]

\* lines 305-315: NewLoader, with the database file there or not
NewLoader(exists) ==
    [state |-> "loader",
     wallet |-> 0, db |-> 0, callbacks |-> <<>>, mu |-> 0,
     g |-> [t \in Goroutines |-> Idle],
     exists |-> exists, open |-> {}, closed |-> {}, handles |-> 0,
     running |-> {},
     fns |-> 0, added |-> <<>>, ran |-> <<>>, ncalls |-> 0]

InitLoader ==
    /\ ld \in {NewLoader(e) : e \in BOOLEAN}
    /\ dstack = <<>>
    /\ condStack = <<>>
    /\ numOps = 0
    /\ flags = {}
    /\ witness = FALSE
    /\ sigCache = NoCache
    /\ err = NoErr
    /\ pc = "none"
    /\ pcOp = "none"
    /\ steps = 0
    /\ ms = NoMS
    /\ calls = <<>>
    /\ stack0 = <<>>
    /\ condStack0 = <<>>
    /\ cache0 = NoCache
    /\ numOps0 = 0
    /\ script = <<>>
    /\ evals = <<>>
    /\ astack = <<>>
    /\ tx = NoTx
    /\ dec = NoDec

\* the state of the script engine, which the Loader does not touch
engineVars ==
    <<dstack, condStack, numOps, flags, witness, sigCache, err, pc, pcOp,
      steps, ms, calls, stack0, condStack0, cache0, numOps0, script, evals,
      astack, tx, dec>>

\* the mutex can be taken by a goroutine that holds it already
MutexFreeOrMine(l, t) == l.mu \in {0, t}

\* line 40: mu sync.Mutex; Lock returns when no goroutine holds the mutex
MutexFree(l, t) == l.mu = 0

\* l.mu.Unlock()
Unlocked(l) == [l EXCEPT !.mu = 0]

\* the call of goroutine t returns r
Returns(l, t, r) == [l EXCEPT !.g[t] = [Idle EXCEPT !.ret = r]]

\* the call of goroutine t returns the error e, and the deferred Unlock runs
Fails(l, t, e, db) ==
    Unlocked(Returns(l, t, Ret(l.g[t].op, e, 0, FALSE, db, 0)))

\* a load is let through while a wallet is loaded
AlreadyLoadedNever(l) == FALSE

\* lines 79 and 157: l.wallet != nil
AlreadyLoaded(l) == l.wallet # 0

\* a database handle is opened on the file, which exists from then on
Opened(l) ==
    [l EXCEPT !.handles = @ + 1, !.open = @ \cup {l.handles + 1},
              !.exists = TRUE]

\* db.Close() is called on the handle h and closes it when it returns no
\* error
Closed(l, h, closeOk) ==
    [l EXCEPT !.closed = @ \cup {h},
              !.open = IF closeOk THEN @ \ {h} ELSE @]

\* lines 130 and 224: w.Start() on the wallet opened on the newest handle,
\* before l.onLoaded(w, db)
Started(l, t) ==
    [l EXCEPT !.running = @ \cup {l.handles},
              !.g[t].w = l.handles, !.g[t].db = l.handles,
              !.g[t].pc = "onLoaded", !.g[t].i = 1]

\* a goroutine calls a method of the Loader
CallMethod ==
    /\ ld.ncalls < MaxCalls
    /\ \E t \in Goroutines, op \in LoaderOps, locks \in BOOLEAN :
          /\ ld.g[t].pc = "idle"
          /\ locks => op = "RunAfterLoad"
          /\ ld' = [ld EXCEPT
                !.ncalls = @ + 1,
                !.fns = IF op = "RunAfterLoad" THEN @ + 1 ELSE @,
                !.g[t] = [Idle EXCEPT
                    !.pc = "lock", !.op = op,
                    !.fn = IF op = "RunAfterLoad"
                           THEN Callback(ld.fns + 1, locks) ELSE NoFn]]
    /\ UNCHANGED engineVars

\* lines 77, 143, 153, 233 and 259: l.mu.Lock()
Lock ==
    /\ \E t \in Goroutines :
          /\ ld.g[t].pc = "lock"
          /\ MutexFree(ld, t)
          /\ ld' = [ld EXCEPT !.mu = t, !.g[t].pc = "body"]
    /\ UNCHANGED engineVars

CreateOutcomes ==
    {"fileExists", "MkdirAll", "walletdb.Create", "Create", "Open", "ok"}

\* lines 79-130 of CreateNewWallet with the mutex held: out is the first
\* call that returns an error
CreateNewWalletBody(l, t, out) ==
    IF AlreadyLoaded(l) THEN Fails(l, t, ErrLoaded, 0)
    ELSE IF out = "fileExists" THEN Fails(l, t, ErrStat, 0)
    ELSE IF l.exists THEN Fails(l, t, ErrAlreadyExists, 0)
    ELSE IF out = "MkdirAll" THEN Fails(l, t, ErrMkdir, 0)
    ELSE IF out = "walletdb.Create" THEN Fails(l, t, ErrDbCreate, 0)
    ELSE
    LET l1 == Opened(l)
    IN  IF out = "Create" THEN Fails(l1, t, ErrWalletCreate, l1.handles)
        ELSE IF out = "Open" THEN Fails(l1, t, ErrWalletOpen, l1.handles)
        ELSE Started(l1, t)

CreateNewWallet ==
    /\ \E t \in Goroutines, out \in CreateOutcomes :
          /\ ld.g[t].pc = "body"
          /\ ld.g[t].op = "CreateNewWallet"
          /\ ld' = CreateNewWalletBody(ld, t, out)
    /\ UNCHANGED engineVars

OpenOutcomes ==
    {"checkCreateDir", "walletdb.Open", "Open", "Open, db.Close", "ok"}

\* lines 157-224 of OpenExistingWallet with the mutex held.  walletdb.Open
\* returns an error for a file that is not there; on a file another handle
\* is open on it returns an error or does not return.
OpenExistingWalletBody(l, t, out) ==
    IF AlreadyLoaded(l) THEN Fails(l, t, ErrLoaded, 0)
    ELSE IF out = "checkCreateDir" THEN Fails(l, t, ErrMkdir, 0)
    ELSE IF out = "walletdb.Open" \/ ~l.exists THEN Fails(l, t, ErrDbOpen, 0)
    ELSE IF l.open # {} THEN [l EXCEPT !.g[t].pc = "walletdb.Open"]
    ELSE
    LET l1 == Opened(l)
        h == l1.handles
    IN  IF out = "Open" THEN Fails(Closed(l1, h, TRUE), t, ErrWalletOpen, h)
        ELSE IF out = "Open, db.Close"
        THEN Fails(Closed(l1, h, FALSE), t, ErrWalletOpen, h)
        ELSE Started(l1, t)

OpenExistingWallet ==
    /\ \E t \in Goroutines, out \in OpenOutcomes :
          /\ ld.g[t].pc = "body"
          /\ ld.g[t].op = "OpenExistingWallet"
          /\ ld' = OpenExistingWalletBody(ld, t, out)
    /\ UNCHANGED engineVars

\* a callback is run: the function, the wallet it is given, the goroutine,
\* and the holder of the mutex and l.wallet at that moment
Ran(l, t, queued) ==
    [id |-> (IF queued THEN l.callbacks[l.g[t].i] ELSE l.g[t].fn).id,
     w |-> l.g[t].w, t |-> t, mu |-> l.mu, wallet |-> l.wallet,
     queued |-> queued]

\* lines 294-297 of onLoaded: fn(w) for the next function of l.callbacks; a
\* function that calls LoadedWallet gets to its l.mu.Lock()
OnLoadedCallback ==
    /\ \E t \in Goroutines :
          /\ ld.g[t].pc = "onLoaded"
          /\ ld.g[t].i <= Len(ld.callbacks)
          /\ ld' = [ld EXCEPT
                !.ran = Append(@, Ran(ld, t, TRUE)),
                !.g[t].pc = IF ld.callbacks[ld.g[t].i].locks
                            THEN "fn.Lock" ELSE "onLoaded",
                !.g[t].i = IF ld.callbacks[ld.g[t].i].locks
                           THEN @ ELSE @ + 1]
    /\ UNCHANGED engineVars

\* the callbacks stay in the Loader
OnLoadedKeepsCallbacks(l, w, db) == [l EXCEPT !.wallet = w, !.db = db]

\* lines 299-301 of onLoaded
OnLoaded(l, w, db) ==
    [l EXCEPT !.wallet = w, !.db = db, !.callbacks = <<>>]

\* lines 299-301, then 133 or 227: the callbacks are done, the wallet is
\* recorded, the call returns it and the deferred Unlock runs
OnLoadedDone ==
    /\ \E t \in Goroutines :
          /\ ld.g[t].pc = "onLoaded"
          /\ ld.g[t].i > Len(ld.callbacks)
          /\ ld' = Unlocked(Returns(
                        OnLoaded(ld, ld.g[t].w, ld.g[t].db), t,
                        Ret(ld.g[t].op, NoErr, ld.g[t].w, TRUE,
                            ld.g[t].db, 0)))
    /\ UNCHANGED engineVars

\* lines 143-146
LoadedWallet ==
    /\ \E t \in Goroutines :
          /\ ld.g[t].pc = "body"
          /\ ld.g[t].op = "LoadedWallet"
          /\ ld' = Unlocked(Returns(ld, t,
                        Ret("LoadedWallet", NoErr, ld.wallet,
                            ld.wallet # 0, 0, 0)))
    /\ UNCHANGED engineVars

\* lines 235-245 of RunAfterLoad with the mutex held: the wallet is read and
\* the mutex released before fn(w), or fn is appended to l.callbacks
RunAfterLoad ==
    /\ \E t \in Goroutines :
          /\ ld.g[t].pc = "body"
          /\ ld.g[t].op = "RunAfterLoad"
          /\ ld' =
                IF ld.wallet # 0
                THEN Unlocked([ld EXCEPT
                        !.g[t].w = ld.wallet, !.g[t].pc = "fn",
                        !.added = Append(@, [id |-> ld.g[t].fn.id,
                                             locks |-> ld.g[t].fn.locks,
                                             queued |-> FALSE])])
                ELSE Unlocked(Returns(
                        [ld EXCEPT
                            !.callbacks = Append(@, ld.g[t].fn),
                            !.added = Append(@, [id |-> ld.g[t].fn.id,
                                                 locks |-> ld.g[t].fn.locks,
                                                 queued |-> TRUE])],
                        t, Ret("RunAfterLoad", NoErr, 0, FALSE, 0,
                               ld.g[t].fn.id)))
    /\ UNCHANGED engineVars

\* line 239: fn(w) with the mutex released
RunAfterLoadFn ==
    /\ \E t \in Goroutines :
          /\ ld.g[t].pc = "fn"
          /\ ld' =
                IF ld.g[t].fn.locks
                THEN [ld EXCEPT !.ran = Append(@, Ran(ld, t, FALSE)),
                                !.g[t].pc = "fn.Lock"]
                ELSE Returns([ld EXCEPT !.ran = Append(@, Ran(ld, t, FALSE))],
                             t, Ret("RunAfterLoad", NoErr, ld.g[t].w, TRUE,
                                    0, ld.g[t].fn.id))
    /\ UNCHANGED engineVars

\* lines 143-146, called by a callback: LoadedWallet takes the mutex, reads
\* l.wallet and releases the mutex; the callback returns
CallbackLoadedWallet ==
    /\ \E t \in Goroutines :
          /\ ld.g[t].pc = "fn.Lock"
          /\ MutexFree(ld, t)
          /\ ld' =
                IF ld.g[t].op = "RunAfterLoad"
                THEN Returns(ld, t, Ret("RunAfterLoad", NoErr, ld.g[t].w,
                                        TRUE, 0, ld.g[t].fn.id))
                ELSE [ld EXCEPT !.g[t].pc = "onLoaded", !.g[t].i = @ + 1]
    /\ UNCHANGED engineVars

\* the wallet stays in the Loader
UnloadedKeepsWallet(l) == [l EXCEPT !.db = 0]

\* lines 275-276: l.wallet = nil, l.db = nil
Unloaded(l) == [l EXCEPT !.wallet = 0, !.db = 0]

\* lines 261-277 of UnloadWallet with the mutex held
UnloadWalletBody(l, t, closeOk) ==
    IF l.wallet = 0 THEN Fails(l, t, ErrNotLoaded, 0)
    ELSE
    LET l1 == Closed([l EXCEPT !.running = @ \ {l.wallet}], l.db, closeOk)
    IN  IF ~closeOk THEN Fails(l1, t, ErrDbClose, 0)
        ELSE Unlocked(Returns(Unloaded(l1), t,
                        Ret("UnloadWallet", NoErr, 0, TRUE, 0, 0)))

UnloadWallet ==
    /\ \E t \in Goroutines, closeOk \in BOOLEAN :
          /\ ld.g[t].pc = "body"
          /\ ld.g[t].op = "UnloadWallet"
          /\ ld' = UnloadWalletBody(ld, t, closeOk)
    /\ UNCHANGED engineVars

NextLoader ==
    \/ CallMethod
    \/ Lock
    \/ CreateNewWallet
    \/ OpenExistingWallet
    \/ OnLoadedCallback
    \/ OnLoadedDone
    \/ LoadedWallet
    \/ RunAfterLoad
    \/ RunAfterLoadFn
    \/ CallbackLoadedWallet
    \/ UnloadWallet

SpecLoader == InitLoader /\ [][NextLoader]_vars

\* goroutine t runs the body of the method it called in this step
BodyStep(t) == ld.g[t].pc = "body" /\ ld'.g[t] # ld.g[t]

\* the wallet, the database, the callbacks and the file are as they were
LoaderUntouched ==
    /\ ld'.wallet = ld.wallet
    /\ ld'.db = ld.db
    /\ ld'.callbacks = ld.callbacks
    /\ ld'.exists = ld.exists
    /\ ld'.open = ld.open
    /\ ld'.closed = ld.closed
    /\ ld'.handles = ld.handles
    /\ ld'.running = ld.running
    /\ ld'.ran = ld.ran
    /\ ld'.added = ld.added

\* C33: under every interleaving of calls by concurrent goroutines at most
\* one wallet is started and not stopped, and it is the loaded one once a
\* wallet is loaded; CreateNewWallet and OpenExistingWallet return ErrLoaded
\* exactly when a wallet is loaded, and then leave the wallet, the database
\* and the file as they are; LoadedWallet returns the loaded wallet and true
\* exactly when that wallet is not nil.
C33_OneWalletLoaded ==
    /\ [](/\ Cardinality(ld.running) <= 1
          /\ ld.wallet # 0 => ld.running \subseteq {ld.wallet}
          /\ \A t \in Goroutines :
                ld.g[t].ret.op = "LoadedWallet"
                => (ld.g[t].ret.ok <=> ld.g[t].ret.w # 0))
    /\ [][\A t \in Goroutines :
            /\ (BodyStep(t) /\ ld.g[t].op \in LoadOps) =>
                  /\ ld.wallet # 0 =>
                        /\ ld'.g[t].pc = "idle"
                        /\ ld'.g[t].ret = Ret(ld.g[t].op, ErrLoaded, 0, FALSE,
                                              0, 0)
                        /\ LoaderUntouched
                  /\ ld.wallet = 0 =>
                        ~(/\ ld'.g[t].pc = "idle"
                          /\ ld'.g[t].ret.err = ErrLoaded)
            /\ (BodyStep(t) /\ ld.g[t].op = "LoadedWallet") =>
                  /\ ld'.g[t].ret.w = ld.wallet
                  /\ LoaderUntouched]_vars

\* with a wallet loaded by one goroutine, a load by the other has returned
\* ErrLoaded and LoadedWallet has returned the wallet and true
C33_Witness ==
    /\ ld.state = "loader"
    /\ ld.wallet # 0
    /\ ld.running = {ld.wallet}
    /\ \E t, u \in Goroutines :
          /\ ld.g[t].ret.op \in LoadOps
          /\ ld.g[t].ret.err = ErrLoaded
          /\ ld.g[u].ret.op = "LoadedWallet"
          /\ ld.g[u].ret.ok
          /\ ld.g[u].ret.w = ld.wallet

\* C34: UnloadWallet returns ErrNotLoaded and changes nothing when no wallet
\* is loaded; when it returns no error the wallet has been stopped, the
\* database closed and the Loader holds no wallet and no database, and a
\* load that finds no wallet loaded is not rejected with ErrLoaded; when
\* closing the database fails that error is returned and the Loader still
\* holds the wallet and the database.
C34_UnloadWallet ==
    [][\A t \in Goroutines :
         /\ (BodyStep(t) /\ ld.g[t].op = "UnloadWallet") =>
               /\ ld'.g[t].pc = "idle"
               /\ ld'.mu = 0
               /\ ld.wallet = 0 =>
                     /\ ld'.g[t].ret.err = ErrNotLoaded
                     /\ LoaderUntouched
               /\ (ld.wallet # 0 /\ ld'.g[t].ret.err = NoErr) =>
                     /\ ld.wallet \notin ld'.running
                     /\ ld.db \in ld'.closed
                     /\ ld.db \notin ld'.open
                     /\ ld'.wallet = 0
                     /\ ld'.db = 0
               /\ (ld.wallet # 0 /\ ld'.g[t].ret.err # NoErr) =>
                     /\ ld'.g[t].ret.err = ErrDbClose
                     /\ ld.db \in ld'.closed
                     /\ ld'.wallet = ld.wallet
                     /\ ld'.db = ld.db
         /\ (BodyStep(t) /\ ld.g[t].op \in LoadOps /\ ld.wallet = 0) =>
               ld'.g[t].ret.err # ErrLoaded]_vars

\* UnloadWallet has returned no error and a load after it has loaded a
\* second wallet
C34_Witness ==
    /\ ld.state = "loader"
    /\ ld.handles >= 2
    /\ \E t, u \in Goroutines :
          /\ ld.g[t].ret.op = "UnloadWallet"
          /\ ld.g[t].ret.err = NoErr
          /\ ld.g[u].ret.op \in LoadOps
          /\ ld.g[u].ret.err = NoErr
          /\ ld.wallet = ld.g[u].ret.w
          /\ ld.wallet = ld.handles
          /\ ld.closed # {}

(***************************************************************************)
(* The functions given to RunAfterLoad, by the history of the functions    *)
(* added (ld.added) and run (ld.ran).                                      *)
(***************************************************************************)
\* the positions in ld.ran and in ld.added of the function id
RanAt(id) == {i \in 1..Len(ld.ran) : ld.ran[i].id = id}
AddedAt(id) == {i \in 1..Len(ld.added) : ld.added[i].id = id}

\* goroutine t is running the functions of l.callbacks in onLoaded, or is
\* inside one of them
InOnLoaded(t) ==
    /\ ld.g[t].op \in LoadOps
    /\ ld.g[t].pc \in {"onLoaded", "fn.Lock"}

\* C35: the functions added with RunAfterLoad while no wallet is loaded are
\* run once each, in the order they were added, with the wallet being
\* loaded, by the goroutine that loads it and before its call returns; a
\* function added while a wallet is loaded is run by its RunAfterLoad call
\* with that wallet before the call returns; no function is run a second
\* time, whatever is unloaded and loaded later.
C35_RunAfterLoad ==
    /\ \A i, j \in 1..Len(ld.ran) : ld.ran[i].id = ld.ran[j].id => i = j
    /\ \A i \in 1..Len(ld.ran) :
          /\ ld.ran[i].w # 0
          /\ \E a \in AddedAt(ld.ran[i].id) :
                ld.added[a].queued = ld.ran[i].queued
          /\ ld.ran[i].queued =>
                \/ InOnLoaded(ld.ran[i].t)
                     /\ ld.g[ld.ran[i].t].w = ld.ran[i].w
                \/ ld.wallet = ld.ran[i].w
                \/ ld.ran[i].w \notin ld.running
    /\ \A i, j \in 1..Len(ld.ran) :
          (i < j /\ ld.ran[i].queued /\ ld.ran[j].queued)
          => \A a \in AddedAt(ld.ran[i].id), b \in AddedAt(ld.ran[j].id) :
                a < b
    /\ \A a \in 1..Len(ld.added) :
          (ld.added[a].queued /\ RanAt(ld.added[a].id) = {}) =>
              /\ \E k \in 1..Len(ld.callbacks) :
                    ld.callbacks[k].id = ld.added[a].id
              /\ ld.wallet = 0
    /\ ld.wallet # 0 => ld.callbacks = <<>>
    /\ \A t \in Goroutines :
          (ld.g[t].ret.op = "RunAfterLoad" /\ ld.g[t].ret.ok) =>
              \E i \in RanAt(ld.g[t].ret.fn) :
                  /\ ~ld.ran[i].queued
                  /\ ld.ran[i].t = t
                  /\ ld.ran[i].w = ld.g[t].ret.w

\* a function was added and run by the load of the first wallet, which was
\* unloaded; a second wallet is loaded and the function was not run again
C35_Witness ==
    /\ ld.state = "loader"
    /\ Len(ld.added) = 1
    /\ ld.added[1].queued
    /\ Len(ld.ran) = 1
    /\ ld.ran[1].w = 1
    /\ ld.wallet = 2
    /\ ld.callbacks = <<>>

(***************************************************************************)
(* The database handle of a load that fails.                               *)
(***************************************************************************)
\* C37: when CreateNewWallet or OpenExistingWallet returns an error after it
\* created or opened the database, db.Close() has been called on the handle
\* before the return, and no later load waits in walletdb.Open for a handle
\* that was left open.
C37_DatabaseClosedOnFailure ==
    \A t \in Goroutines :
        /\ (/\ ld.g[t].ret.op \in LoadOps
            /\ ld.g[t].ret.err # NoErr
            /\ ld.g[t].ret.db # 0)
           => ld.g[t].ret.db \in ld.closed
        /\ ld.g[t].pc # "walletdb.Open"

(***************************************************************************)
(* Callbacks and the mutex of the Loader.                                  *)
(***************************************************************************)
\* goroutine t is inside a queued callback, at the l.mu.Lock() of the method
\* of the Loader the callback calls
InLockingCallback(t) ==
    ld.g[t].op \in LoadOps /\ ld.g[t].pc = "fn.Lock"

\* C40: a function queued with RunAfterLoad is called by CreateNewWallet or
\* OpenExistingWallet while the loading goroutine holds the mutex of the
\* Loader and before l.wallet is set; a queued function that calls a method
\* of the same Loader that takes the mutex therefore never gets it: the
\* goroutine stays where it is, the mutex stays held and the wallet is never
\* recorded, so the load does not return; a function given to RunAfterLoad
\* while a wallet is loaded is called with the mutex not held by its
\* goroutine.
C40_CallbacksUnderMutex ==
    /\ [](/\ \A i \in 1..Len(ld.ran) :
                IF ld.ran[i].queued
                THEN ld.ran[i].mu = ld.ran[i].t /\ ld.ran[i].wallet = 0
                ELSE ld.ran[i].mu # ld.ran[i].t
          /\ \A t \in Goroutines :
                InOnLoaded(t) => ld.mu = t /\ ld.wallet = 0)
    /\ [][\A t \in Goroutines :
            InLockingCallback(t) =>
                /\ ld'.g[t] = ld.g[t]
                /\ ld'.mu = t
                /\ ld'.wallet = 0
                /\ \A u \in Goroutines :
                      ld.g[u].pc = "lock" => ld'.g[u] = ld.g[u]]_vars

\* a queued function that calls LoadedWallet was called by a load, which
\* holds the mutex it waits for, and the other goroutine waits for the mutex
\* in a call of its own
C40_Witness ==
    /\ ld.state = "loader"
    /\ \E t, u \in Goroutines :
          /\ InLockingCallback(t)
          /\ ld.mu = t
          /\ ld.wallet = 0
          /\ ld.running = {ld.g[t].w}
          /\ Len(ld.ran) = 1
          /\ ld.ran[1].queued
          /\ ld.g[u].pc = "lock"

====
